---------------------------- MODULE Spec2Model ----------------------------
(***************************************************************************)
(* A model of the WhatsApp gateway servers of this repository.             *)
(*                                                                         *)
(*   Part I   the durable job queue and its dispatcher                     *)
(*            (src/wa_server.js: POST /schedule, runSchedulerTick, boot).  *)
(*   Part II  the session lifecycle of the multi-session server            *)
(*            (src/baileys-server/server.js) and of the single-session     *)
(*            server (src/wa_server.js: startBaileys and its handlers).    *)
(*                                                                         *)
(* A Node.js process runs one callback at a time, so every action below is *)
(* one run-to-completion step: the code between two suspension points      *)
(* (await, timer, transport event).  A statement sent to the job store     *)
(* (PostgreSQL) executes atomically at the store.                          *)
(***************************************************************************)
EXTENDS Integers, Sequences, FiniteSets, TLC

(***************************************************************************)
(* Bounds of the model.                                                    *)
(***************************************************************************)
\* Number of rows the job table may hold.
MaxJobs == 2
\* The store clock NOW() runs over 0..MaxTime.
MaxTime == 1
\* The batch size of the dispatcher's SELECT.  The source says LIMIT 10
\* (src/wa_server.js:285); the model scales it down so that a burst larger
\* than the batch fits in MaxJobs rows.
Limit == 1
\* Faults (a process crash with restart, or a store outage) in one behaviour.
MaxFaults == 1
\* Events of the transport and of callers (closes, commands, setup calls that
\* throw) in one behaviour of the multi-session server ...
MaxMsEvents == 2
\* ... and of the single-session server.
MaxWaEvents == 2
\* Pairing handlers of the single-session server that may wait for QRCode at once.
MaxRenders == 1
\* Calls of saveSessionToDatabase that may wait for the store at once, per session.
MaxSaves == 1
\* The number of steps the clock takes, each of half the throttle.
MaxClock == 3
\* retries, the default of restoreSessionFromDatabase (src/baileys-server/server.js:81).
Retries == 3
\* The throttle of the creds.update handler in ms (src/baileys-server/server.js:194).
ThrottleMs == 30000
\* retries, the default of saveSessionToDatabase (src/baileys-server/server.js:19).
SaveRetries == 3
\* The session ids of the multi-session server, and the ones its callers
\* use in their requests.
Sids == {"u1", "u2"}
CallerSids == {"u1"}

\* Dispatcher tick instances that may be in progress at once.  setInterval
\* (src/wa_server.js:319) starts a tick every 2 s whether or not the previous
\* one has finished, so ticks of one process overlap like ticks of several
\* processes do.  Ticks meet only at the job store, which cannot tell whose
\* statement it executes; a tick of another process differs from one of this
\* process only in the isConnected it reads, which SessionEvent changes at
\* any time, and in ending separately, as StoreError lets a tick do.
Ticks == {1, 2}

Null == "null"
\* A nullable timestamp column: <<>> is NULL, <<t>> is the instant t.
NoTime == <<>>
At(t) == <<t>>

VARIABLES
    \* ---- Part I: job store and dispatcher ----
    now,          \* the store clock, NOW()
    jobs,         \* table wa_jobs: a sequence indexed by id (BIGSERIAL)
    isConnected,  \* the module variable isConnected
    tick,         \* per tick instance: position in runSchedulerTick, the job of
                  \* the current iteration and the rows still to iterate over
    hist,         \* history (not program state): per job, what was done to it
    faults,       \* number of faults so far (counted under FairSpec only)
    \* ---- Part II: session lifecycle ----
    server,       \* which server the behaviour is a run of
    sessions,     \* multi: the Map sessions, sessionId -> session object
    socks,        \* multi: the sockets made and still reachable, each with its
                  \* session, whether its handlers write the object in the Map,
                  \* whether it is that object's sock, and (history) how the
                  \* restore before it ended
    timers,       \* multi: per session, the pending connectToWhatsApp timers by delay
    conns,        \* multi: per session, the invocations of connectToWhatsApp in
                  \* flight, by the await they are at
    boot,         \* multi: whether autoRestoreSessions has still to run
    auth,         \* multi: per session, the files of its directory auth_info_<id>
    store,        \* multi: per session, the record the credential store holds
    saves,        \* multi: per session, the calls of saveSessionToDatabase that
                  \* wait for the store, each with the data it read and its attempt
    btimers,      \* multi: per session, the pending timers of the backup that
                  \* follows 'open'
    began,        \* multi: per session, the directory as the restore in flight
                  \* found it when it began (history, read by no action)
    lastQR,       \* single: the module variable lastQR
    lastQRpng,    \* single: the module variable lastQRpng
    meJid,        \* single: the module variable meJid
    starting,     \* single: the module variable starting
    run,          \* single: where the invocation of startBaileys past the guard is
    wsocks,       \* single: the sockets made and still reachable; the module
                  \* variable sock is the one marked cur
    wtimers,      \* single: the number of pending startBaileys timers
    renders,      \* single: the pairing handlers waiting for QRCode
    authDir,      \* single: the files of the directory AUTH_DIR
    out,          \* history: the answer to the last request of a send route,
                  \* and whether the route called sendMessage for it
    clock,        \* Date.now(), the clock the creds.update handler reads
    owed,         \* history: a close that was not a logout has not yet been
                  \* followed by a connection attempt
    env           \* number of events of the transport and of callers so far

jobRest == <<now, jobs, tick, hist, faults>>
jobVars == <<now, jobs, isConnected, tick, hist, faults>>
credVars == <<auth, store, saves, btimers, began>>
msVars == <<sessions, socks, timers, conns, boot, credVars>>
waVars == <<lastQR, lastQRpng, meJid, starting, run, wsocks, wtimers, renders, authDir>>
sessVars == <<server, msVars, waVars, out, clock, owed, env>>
vars == <<jobVars, sessVars>>

(***************************************************************************)
(* Part I.  Job queue and dispatcher (src/wa_server.js)                    *)
(***************************************************************************)
Min(a, b) == IF a <= b THEN a ELSE b
\* History counters saturate at 2: "twice" is all a claim ever asks about.
Bump(n) == Min(n + 1, 2)

JobIds == 1..Len(jobs)

\* A faulty variant of the INSERT: the row starts in processing.
NewJobProcessing(sendAt) ==
    [send_at |-> sendAt, status |-> "processing", error |-> Null, sent_at |-> NoTime]

\* A fresh row as INSERT ... VALUES ($1,$2,$3,'queued') leaves it: error and
\* sent_at are NULL by the table's defaults.
NewJob(sendAt) ==
    [send_at |-> sendAt, status |-> "queued", error |-> Null, sent_at |-> NoTime]

NewHist == [claims |-> 0, sends |-> 0, marks |-> 0]

\* The local state of a tick instance that is not running.
IdleTick == [pc |-> "idle", job |-> 0, rest |-> <<>>, ok |-> FALSE, err |-> Null]

\* A tick whose SELECT returned the rows b: the loop takes the first.
StartTick(b) ==
    IF b = <<>> THEN IdleTick
    ELSE [pc |-> "claim", job |-> Head(b), rest |-> Tail(b), ok |-> FALSE, err |-> Null]

\* A faulty variant of the SELECT's WHERE clause: no send_at condition.
DueAnyTime(js, t) == {j \in 1..Len(js) : js[j].status = "queued"}

\* WHERE status = 'queued' AND send_at <= NOW()
Due(js, t) == {j \in 1..Len(js) : js[j].status = "queued" /\ js[j].send_at <= t}

\* ORDER BY send_at ASC LIMIT k over the rows `due`: every result the store
\* may return (rows with equal send_at come in any order).
RECURSIVE OrderLimit(_, _, _)
OrderLimit(js, due, k) ==
    IF k = 0 \/ due = {} THEN {<<>>}
    ELSE LET first == {j \in due : \A i \in due : js[j].send_at <= js[i].send_at}
         IN  UNION {{<<j>> \o s : s \in OrderLimit(js, due \ {j}, k - 1)} : j \in first}

\* A faulty variant of the SELECT: no LIMIT.
SelectDueNoLimit(js, t) == OrderLimit(js, Due(js, t), Cardinality(Due(js, t)))

\* The dispatcher's SELECT (lines 279-286).
SelectDue(js, t) == OrderLimit(js, Due(js, t), Limit)

\* Faulty variants of the claiming UPDATE's WHERE clause: no status
\* condition at all; one that also takes over rows in processing; one that
\* only refuses rows in processing.
ClaimMatchesAlways(row) == TRUE
ClaimMatchesStale(row) == row.status \in {"queued", "processing"}
ClaimMatchesNotProcessing(row) == row.status # "processing"

\* The WHERE clause of the claiming UPDATE (line 290).
ClaimMatches(row) == row.status = "queued"

\* for (const job of jobs): the loop moves to the next job or the tick ends.
Advance(tk) == StartTick(tk.rest)

CurJob(tk) == tk.job

\* POST /schedule with valid fields: one INSERT.
Schedule(sendAt) ==
    /\ Len(jobs) < MaxJobs
    /\ jobs' = Append(jobs, NewJob(sendAt))
    /\ hist' = Append(hist, NewHist)
    /\ UNCHANGED <<now, isConnected, tick, faults, sessVars>>

\* runSchedulerTick is called by the interval timer and its SELECT executes
\* (lines 277-288).  A new tick takes the lowest free instance.
TickSelect(t) ==
    /\ tick[t].pc = "idle"
    /\ \A u \in Ticks : u < t => tick[u].pc # "idle"
    /\ \E b \in SelectDue(jobs, now) :
         tick' = [tick EXCEPT ![t] = StartTick(b)]
    /\ UNCHANGED <<now, jobs, isConnected, hist, faults, sessVars>>

\* A faulty variant of the step after the claim: no isConnected check.
AfterClaimNoCheck(tk, connected) == [tk EXCEPT !.pc = "send"]

\* What the tick does between the claim and its next await (lines 295-302):
\* it throws at once when the process is not connected, and calls
\* sock.sendMessage otherwise.
AfterClaim(tk, connected) ==
    IF ~connected
    THEN [tk EXCEPT !.pc = "mark", !.ok = FALSE, !.err = "desconectado"]
    ELSE [tk EXCEPT !.pc = "send"]

\* A faulty variant of line 293: without the continue the tick goes on to
\* send the job whose claim matched no row.
ClaimMissedFallsThrough(tk) == [tk EXCEPT !.pc = "send"]

\* if (upd.rowCount === 0) continue (line 293): the tick leaves the job alone
\* and the loop takes the next one.
ClaimMissed(tk) == Advance(tk)

\* The claiming UPDATE of the current job executes and the tick resumes
\* (lines 289-298).
TickClaim(t) ==
    LET tk == tick[t]
        j  == CurJob(tk)
    IN  /\ tk.pc = "claim"
        /\ IF ClaimMatches(jobs[j])
           THEN /\ jobs' = [jobs EXCEPT ![j].status = "processing"]
                /\ tick' = [tick EXCEPT ![t] = AfterClaim(tk, isConnected)]
                /\ hist' = [hist EXCEPT ![j].claims = Bump(@),
                                        ![j].sends =
                                            IF AfterClaim(tk, isConnected).pc = "send"
                                            THEN Bump(@) ELSE @]
           ELSE /\ tick' = [tick EXCEPT ![t] = ClaimMissed(tk)]
                /\ UNCHANGED <<jobs, hist>>
        /\ UNCHANGED <<now, isConnected, faults, sessVars>>

\* sock.sendMessage settles: it resolves (ok = true) or rejects (err = String(e)).
TickSendDone(t, sent) ==
    /\ tick[t].pc = "send"
    /\ tick' = [tick EXCEPT ![t].pc = "mark", ![t].ok = sent,
                            ![t].err = IF sent THEN Null ELSE "send_error"]
    /\ UNCHANGED <<now, jobs, isConnected, hist, faults, sessVars>>

\* A faulty variant of the outcome UPDATE: a failure also stamps sent_at.
MarkRowStampsFailure(row, ok, err, t) ==
    IF ok THEN [row EXCEPT !.status = "sent", !.sent_at = At(t), !.error = Null]
    ELSE [row EXCEPT !.status = "failed", !.sent_at = At(t), !.error = err]

\* The row as the outcome UPDATE leaves it (lines 304-308).
MarkRow(row, ok, err, t) ==
    IF ok THEN [row EXCEPT !.status = "sent", !.sent_at = At(t), !.error = Null]
    ELSE [row EXCEPT !.status = "failed", !.error = err]

\* The outcome UPDATE executes and the loop goes on (lines 304-309).
TickMark(t) ==
    LET tk == tick[t]
        j  == CurJob(tk)
    IN  /\ tk.pc = "mark"
        /\ jobs' = [jobs EXCEPT ![j] = MarkRow(@, tk.ok, tk.err, now)]
        /\ hist' = [hist EXCEPT ![j].marks = Bump(@)]
        /\ tick' = [tick EXCEPT ![t] = Advance(tk)]
        /\ UNCHANGED <<now, isConnected, faults, sessVars>>

\* The store is unreachable when the tick's claiming or outcome UPDATE is
\* due: pool.query rejects, the statement has no effect, and the catch of
\* line 310 ends the tick.
StoreError(t) ==
    /\ tick[t].pc \in {"claim", "mark"}
    /\ tick' = [tick EXCEPT ![t] = IdleTick]
    /\ UNCHANGED <<now, jobs, isConnected, hist, faults, sessVars>>

\* A handler of Part II assigns the flag: the connection.update handler
\* (lines 135, 139, 145) or a route (lines 252, 267).  Part I sees only the
\* assignment.
SessionEvent(c) ==
    /\ isConnected # c
    /\ isConnected' = c
    /\ UNCHANGED <<now, jobs, tick, hist, faults, sessVars>>

\* The process dies and is started again: its ticks and module variables are
\* gone (isConnected = false, line 45); the job table stays.
CrashEffect ==
    /\ \E t \in Ticks : tick[t].pc # "idle"
    /\ tick' = [t \in Ticks |-> IdleTick]
    /\ isConnected' = FALSE
    /\ UNCHANGED <<now, jobs, hist, sessVars>>

Crash == CrashEffect /\ UNCHANGED faults

ClockTick ==
    /\ now < MaxTime
    /\ now' = now + 1
    /\ UNCHANGED <<jobs, isConnected, tick, hist, faults, sessVars>>

(***************************************************************************)
(* Part II.  Session lifecycle                                             *)
(*                                                                         *)
(* Two servers keep a WhatsApp session alive: the multi-session server     *)
(* (src/baileys-server/server.js, one session object per sessionId in the  *)
(* Map sessions) and the single-session server (src/wa_server.js, module   *)
(* variables).  A behaviour is a run of one of them; server says which.    *)
(*                                                                         *)
(* The transport (makeWASocket) is outside the repository.  A socket emits *)
(* connection.update events in the order of its protocol: 'connecting',    *)
(* then pairing payloads (qr) as long as it is not authenticated, then     *)
(* 'open'; a close event may come at any point and ends the socket, also   *)
(* when the server ends it with sock.end().                                *)
(*                                                                         *)
(* The state holds what the program can still reach.  A socket that has    *)
(* closed is kept only while a variable or a session in the Map refers to  *)
(* it.  A session object that /reconnect or /clear-session has deleted     *)
(* from the Map is reachable only from the handlers of sockets made for    *)
(* it, which write it and which nothing reads: such a socket is marked     *)
(* detached (att = FALSE) and the object is not kept.                      *)
(***************************************************************************)

\* The statusCode of lastDisconnect.error.output.  "none" is a close without
\* an error object, which is what sock.end() called with no argument emits.
Codes == {"loggedOut", "badSession", "restartRequired", "other", "none"}

\* What the handler can tell about lastDisconnect.error.message: whether it
\* includes 'device_removed' or 'conflict' (lines 222-223) or not.
Messages == {"conflict", "plain"}

\* ---- credentials ----

\* An auth directory holds the files the transport's useMultiFileAuthState
\* keeps in it: creds.json, which saveCreds writes, and the key files, which
\* the transport writes as it needs them.  A directory that does not exist
\* and an empty one behave alike in every routine below.
Files == {"creds.json", "keys.json"}
Contents == {"a", "b"}
Absent == "absent"
EmptyDir == [f \in Files |-> Absent]

\* sessionData of saveSessionToDatabase (lines 24-33): the content of every
\* file whose name ends with .json.
Json == {"creds.json", "keys.json"}
SessionData(dir) == [f \in Files |-> IF f \in Json THEN dir[f] ELSE Absent]

\* The order of Object.entries(session_data) (line 102), and the place of a
\* file among the entries of a record.
Order == <<"creds.json", "keys.json">>
Index(f) == CHOOSE i \in DOMAIN Order : Order[i] = f
Rank(rec, f) == Cardinality({g \in Files : rec[g] # Absent /\ Index(g) <= Index(f)})
Count(rec) == Cardinality({g \in Files : rec[g] # Absent})

\* The directory after the loop of lines 102-105 has written the first n
\* entries of the record.
WriteFiles(dir, rec, n) ==
    [f \in Files |-> IF rec[f] # Absent /\ Rank(rec, f) <= n THEN rec[f] ELSE dir[f]]

\* The credential store (the service behind /api/session/backup and
\* /api/session/restore): save keeps the blob of a session, restore returns
\* the blob kept last, or nothing.
StoreSave(st, s, blob) == [st EXCEPT ![s] = blob]
StoreRestore(st, s) == st[s]
NoRecord == EmptyDir

\* A call of saveSessionToDatabase that waits for attempt n of its POST (line
\* 42) with the sessionData it read when it was called.
SavePos(blob, n) == [blob |-> blob, n |-> n]

\* saveSessionToDatabase is called (lines 20-42): it reads the directory and,
\* unless it found no file, sends the first POST.
SaveCall(sv, dir) ==
    IF SessionData(dir) = EmptyDir THEN sv ELSE sv \cup {SavePos(SessionData(dir), 1)}

\* ---- the multi-session server ----

\* The delays of the timers that call connectToWhatsApp: /reconnect (line
\* 440), the close handler (lines 227, 229), autoRestoreSessions (line 628,
\* 2000 * index in the list).
StaggerDelays == {2000 * i : i \in 0..(Cardinality(Sids) - 1)}
Delays == {1000, 10000, 30000} \cup StaggerDelays
NoDelay == 0 - 1

NoTimers == [d \in Delays |-> 0]
AddTimer(ts, d) == IF d = NoDelay THEN ts ELSE [ts EXCEPT ![d] = @ + 1]

\* Where an invocation of connectToWhatsApp waits: in attempt n of
\* restoreSessionFromDatabase (line 87), or for useMultiFileAuthState (line
\* 146) with res telling how the restore ended.
RestorePos(n) == [at |-> "restore", n |-> n, res |-> "pending"]
AuthPos(r) == [at |-> "auth", n |-> 0, res |-> r]
ThrownPos == [at |-> "thrown", n |-> 0, res |-> "thrown"]
Results == {"restored", "absent", "exhausted"}
Positions == {RestorePos(n) : n \in 1..Retries} \cup {AuthPos(r) : r \in Results}
NoConns == [p \in Positions |-> 0]

\* What one attempt of the restore can meet: the store returns data, which is
\* written to the auth directory; it returns data and a write after the first
\* throws; it answers OK with no data; it answers 404; or anything that throws
\* before a file is written (fetch rejects or is aborted after 10 s, any
\* other HTTP status, a body that is not JSON, the first write fails).
Outcomes == {"data", "partial", "empty", "notfound", "error"}

\* A faulty variant of the restore: the last failure is thrown to the caller.
RestoreNextThrows(n, o) ==
    CASE o = "data" -> AuthPos("restored")
      [] o = "notfound" -> AuthPos("absent")
      [] OTHER -> IF n < Retries THEN RestorePos(n + 1) ELSE ThrownPos

\* restoreSessionFromDatabase, one turn of its loop (lines 82-128): where the
\* invocation is after attempt n met outcome o.
RestoreNext(n, o) ==
    CASE o = "data" -> AuthPos("restored")
      [] o = "notfound" -> AuthPos("absent")
      [] OTHER -> IF n < Retries THEN RestorePos(n + 1) ELSE AuthPos("exhausted")

\* The time the restore waits after attempt n met outcome o and before it
\* makes attempt n + 1: a failure that throws is caught and waits attempt *
\* 1000 ms (line 125); an OK answer without data neither returns nor throws,
\* so the loop goes on at once (lines 96, 108, 82).
RestoreWait(n, o) == IF o = "empty" THEN 0 ELSE n * 1000

\* The time a save waits after its attempt n failed and before it makes
\* attempt n + 1 (line 70).
SaveWait(n) == n * 2000

\* sessions.get(sessionId) of a session the Map does not have; /status
\* reports it as not_initialized (line 290).
NoSession ==
    [qrCode |-> "", isConnected |-> FALSE, status |-> "not_initialized",
     backupInterval |-> FALSE]

\* The session object of lines 175-181.  Its field sock is the socket marked
\* cur among the sockets attached to it.
NewSession ==
    [qrCode |-> "", isConnected |-> FALSE, status |-> "initializing",
     backupInterval |-> FALSE]

\* sessions.has(sessionId)
Has(s) == sessions[s] # NoSession

\* The conflict class of the close handler (lines 220-223).
IsConflict(code, msg) ==
    code \in {"badSession", "restartRequired"} \/ msg = "conflict"

\* A faulty variant of the close handler: one delay for every close.
ReconnectDelayFlat(code, msg) ==
    IF IsConflict(code, msg) THEN 10000
    ELSE IF code # "loggedOut" THEN 10000
    ELSE NoDelay

\* The delay of the timer the close handler sets, if any (lines 216-230).
ReconnectDelay(code, msg) ==
    IF IsConflict(code, msg) THEN 30000
    ELSE IF code # "loggedOut" THEN 10000
    ELSE NoDelay

\* The session object after the close branch of the handler (lines 213-226).
OnClose(sess, code, msg) ==
    [sess EXCEPT !.isConnected = FALSE, !.status = "disconnected",
                 !.qrCode = IF IsConflict(code, msg) THEN "" ELSE @]

\* The session object after the open branch (lines 232-243).
OnOpen(sess) ==
    [sess EXCEPT !.isConnected = TRUE, !.status = "connected", !.qrCode = "",
                 !.backupInterval = TRUE]

SockIds == 1..Len(socks)
Live == {k \in SockIds : socks[k].phase # "closed"}

\* The sockets the program can still reach.
Reachable(q) == q.phase # "closed" \/ (q.att /\ q.cur) \/ q.saving > 0 \/ q.armed
Collect(sk) == SelectSeq(sk, Reachable)

\* connectToWhatsApp is called: it makes the auth directory and awaits the
\* first attempt of the restore (lines 133-143).
BeginConnect(cs) == [cs EXCEPT ![RestorePos(1)] = @ + 1]

\* The history of the restores: what the directory of session s held when
\* its restore began, known while that restore is the only one in flight for
\* s and nothing else has written the directory since.
Unknown == [f \in Files |-> "unknown"]
Restoring(s) == \E n \in 1..Retries : conns[s][RestorePos(n)] > 0
Begin(s) == [began EXCEPT ![s] = IF Restoring(s) THEN Unknown ELSE auth[s]]
Forget(s) == [began EXCEPT ![s] = Unknown]

\* The close event of socket k reaches its handler (lines 212-230), which
\* writes the session object it was registered with (line 184) and may set a
\* timer: the sockets, sessions and timers after it.
ClosedSocks(k) == Collect([socks EXCEPT ![k].phase = "closed"])
ClosedSessions(k, code, msg) ==
    IF socks[k].att
    THEN [sessions EXCEPT ![socks[k].sid] = OnClose(@, code, msg)]
    ELSE sessions
ClosedTimers(k, code, msg) ==
    [timers EXCEPT ![socks[k].sid] = AddTimer(@, ReconnectDelay(code, msg))]

\* The transport closes socket k.
MsClose(k, code, msg) ==
    /\ server = "multi"
    /\ env < MaxMsEvents
    /\ k \in Live
    /\ code # "none"
    /\ env' = env + 1
    /\ socks' = ClosedSocks(k)
    /\ sessions' = ClosedSessions(k, code, msg)
    /\ timers' = ClosedTimers(k, code, msg)
    /\ owed' = (owed \/ code # "loggedOut")
    /\ UNCHANGED <<server, conns, boot, credVars, waVars, out, clock, jobVars>>

\* Socket k emits a pairing payload (lines 206-210).
MsQr(k) ==
    /\ server = "multi"
    /\ k \in SockIds
    /\ socks[k].phase = "connecting"
    /\ sessions' = IF socks[k].att
                   THEN [sessions EXCEPT ![socks[k].sid].qrCode = "qr",
                                         ![socks[k].sid].status = "qr_ready"]
                   ELSE sessions
    /\ UNCHANGED <<server, socks, timers, conns, boot, owed, env, credVars, waVars, out, clock, jobVars>>

\* The sockets after the open branch for socket k (lines 238-243).  The
\* interval of the object in the Map is the object's field backupInterval
\* (OnOpen).  A deleted object is known only through the sockets made for
\* it: the interval it holds is recorded at the socket whose handler armed
\* it, and the handler of another socket of the same object clears it
\* before it arms its own.
OpenedSocks(k) ==
    [i \in DOMAIN socks |->
       IF i = k
       THEN [socks[i] EXCEPT !.phase = "open",
                             !.armed = IF socks[k].att THEN @ ELSE TRUE]
       ELSE IF /\ ~socks[k].att /\ ~socks[i].att
               /\ socks[i].sid = socks[k].sid /\ socks[i].obj = socks[k].obj
            THEN [socks[i] EXCEPT !.armed = FALSE]
            ELSE socks[i]]

\* Socket k reports connection 'open' (lines 231-251).
MsOpen(k) ==
    /\ server = "multi"
    /\ k \in SockIds
    /\ socks[k].phase = "connecting"
    /\ socks' = Collect(OpenedSocks(k))
    /\ sessions' = IF socks[k].att
                   THEN [sessions EXCEPT ![socks[k].sid] = OnOpen(@)]
                   ELSE sessions
    /\ btimers' = [btimers EXCEPT ![socks[k].sid] = @ + 1]
    /\ UNCHANGED <<server, timers, conns, boot, owed, env, auth, store, saves,
                   began, waVars, out, clock, jobVars>>

\* Socket k reports connection 'connecting' (lines 252-257).
MsConnecting(k) ==
    /\ server = "multi"
    /\ k \in SockIds
    /\ socks[k].phase = "new"
    /\ socks' = [socks EXCEPT ![k].phase = "connecting"]
    /\ sessions' = IF socks[k].att
                   THEN [sessions EXCEPT ![socks[k].sid].status = "connecting"]
                   ELSE sessions
    /\ UNCHANGED <<server, timers, conns, boot, owed, env, credVars, waVars, out, clock, jobVars>>

\* A timer set for session s with delay d fires and calls connectToWhatsApp.
MsTimer(s, d) ==
    /\ server = "multi"
    /\ timers[s][d] > 0
    /\ timers' = [timers EXCEPT ![s][d] = @ - 1]
    /\ conns' = [conns EXCEPT ![s] = BeginConnect(@)]
    /\ began' = Begin(s)
    /\ UNCHANGED <<server, sessions, socks, boot, owed, env, auth, store, saves,
                   btimers, waVars, out, clock, jobVars>>

\* The catch of connectToWhatsApp (lines 260-266).
Caught(s) ==
    IF Has(s) THEN [sessions EXCEPT ![s].status = "error"] ELSE sessions

\* Attempt n of the restore of an invocation for session s meets outcome o,
\* and the invocation goes on to its next await (lines 82-146).
MsRestore(s, n, o) ==
    LET next == RestoreNext(n, o)
        rec == StoreRestore(store, s)
    IN  /\ server = "multi"
        /\ conns[s][RestorePos(n)] > 0
        /\ o \in {"data", "partial"} => rec # NoRecord
        /\ o \in {"empty", "notfound"} => rec = NoRecord
        /\ o = "partial" => Count(rec) > 1
        /\ auth' = [auth EXCEPT ![s] =
                      CASE o = "data" -> WriteFiles(@, rec, Count(rec))
                        [] o = "partial" -> WriteFiles(@, rec, 1)
                        [] OTHER -> @]
        /\ began' = IF next.at = "restore" THEN began ELSE Forget(s)
        /\ IF next = ThrownPos
           THEN /\ conns' = [conns EXCEPT ![s][RestorePos(n)] = @ - 1]
                /\ sessions' = Caught(s)
                /\ owed' = FALSE
           ELSE /\ conns' = [conns EXCEPT ![s][RestorePos(n)] = @ - 1,
                                          ![s][next] = @ + 1]
                /\ UNCHANGED <<sessions, owed>>
        /\ UNCHANGED <<server, socks, timers, boot, env, store, saves, btimers,
                       waVars, out, clock, jobVars>>

\* Date.now() when the server starts, in ms since 1970: more than the
\* throttle, so that the first creds.update of a connection passes the test
\* of line 194 against lastBackup = 0.
Epoch == 2 * ThrottleMs

\* The socket of lines 149-171 with what the closures of its handlers hold:
\* lastBackup (line 188), the number of creds.update handlers that wait for
\* saveCreds (line 190) and, as history, when the handler last called
\* saveSessionToDatabase.  Its session object (line 184) is the one in the
\* Map (obj = 0) until a teardown deletes it; armed says that a deleted
\* object holds an interval this socket's handler armed.
NewSocket(s, r) ==
    [sid |-> s, att |-> TRUE, cur |-> TRUE, phase |-> "new", restore |-> r,
     lastBackup |-> 0, saving |-> 0, backedAt |-> NoTime,
     obj |-> 0, armed |-> FALSE]

\* The sockets after session.sock = sock (line 185) for a new socket of
\* session s made after a restore that ended with r.
WithSocket(s, r) ==
    Append(Collect([i \in DOMAIN socks |->
                      IF socks[i].sid = s THEN [socks[i] EXCEPT !.cur = FALSE]
                      ELSE socks[i]]),
           NewSocket(s, r))

\* useMultiFileAuthState settles for an invocation whose restore ended with
\* r.  When it resolves the rest of connectToWhatsApp runs (lines 146-258):
\* the socket is made, the session object is created unless the Map has one,
\* session.sock is assigned and the handlers are registered.  When it
\* rejects, or makeWASocket throws, the catch runs (lines 260-266).
MsSetup(s, r, ok) ==
    /\ server = "multi"
    /\ conns[s][AuthPos(r)] > 0
    /\ conns' = [conns EXCEPT ![s][AuthPos(r)] = @ - 1]
    /\ owed' = FALSE
    /\ IF ok
       THEN /\ sessions' = IF Has(s) THEN sessions
                           ELSE [sessions EXCEPT ![s] = NewSession]
            /\ socks' = WithSocket(s, r)
            /\ UNCHANGED env
       ELSE /\ env < MaxMsEvents
            /\ env' = env + 1
            /\ sessions' = Caught(s)
            /\ UNCHANGED socks
    /\ UNCHANGED <<server, timers, boot, credVars, waVars, out, clock, jobVars>>

\* GET /qr/:sessionId or GET /qr?sessionId= for a session the Map does not
\* have: the route calls connectToWhatsApp (lines 322-323, 573-574).
MsQrRequest(s) ==
    /\ server = "multi"
    /\ env < MaxMsEvents
    /\ ~Has(s)
    /\ env' = env + 1
    /\ conns' = [conns EXCEPT ![s] = BeginConnect(@)]
    /\ began' = Begin(s)
    /\ UNCHANGED <<server, sessions, socks, timers, boot, owed, auth, store, saves,
                   btimers, waVars, out, clock, jobVars>>

\* The teardown shared by /reconnect and /clear-session (lines 428-437,
\* 473-482): session.sock.end(), whose close event reaches the handler
\* before end() returns, clearInterval, sessions.delete.  The sockets made
\* for the deleted object are detached from then on.
Ends(s) == \E k \in Live : socks[k].sid = s /\ socks[k].att /\ socks[k].cur
\* A name for the object sessions.delete removes: one that no socket of the
\* session still carries.
DeletedObj(s) ==
    CHOOSE n \in 1..(Len(socks) + 1) :
        /\ \A i \in DOMAIN socks : socks[i].sid = s => socks[i].obj # n
        /\ \A m \in 1..(n - 1) : \E i \in DOMAIN socks : socks[i].sid = s /\ socks[i].obj = m
\* A faulty variant of the teardown: it ends the sockets of every session.
TornSocksAll(s) ==
    Collect([i \in DOMAIN socks |->
               [socks[i] EXCEPT !.phase = IF socks[i].att /\ socks[i].cur
                                          THEN "closed" ELSE @,
                                !.att = FALSE, !.cur = FALSE]])

TornSocks(s) ==
    Collect([i \in DOMAIN socks |->
               IF socks[i].sid = s
               THEN [socks[i] EXCEPT !.phase = IF socks[i].att /\ socks[i].cur
                                               THEN "closed" ELSE @,
                                     !.obj = IF socks[i].att THEN DeletedObj(s) ELSE @,
                                     !.att = FALSE, !.cur = FALSE]
               ELSE socks[i]])
TornTimers(s) ==
    IF Ends(s) THEN AddTimer(timers[s], ReconnectDelay("none", "plain"))
    ELSE timers[s]

\* A faulty variant of /reconnect: it removes the auth directory as
\* /clear-session does.
MsReconnectClears(s) ==
    /\ server = "multi"
    /\ env < MaxMsEvents
    /\ env' = env + 1
    /\ socks' = TornSocks(s)
    /\ sessions' = [sessions EXCEPT ![s] = NoSession]
    /\ timers' = [timers EXCEPT ![s] = AddTimer(TornTimers(s), 1000)]
    /\ owed' = (owed \/ Ends(s))
    /\ auth' = [auth EXCEPT ![s] = EmptyDir]
    /\ UNCHANGED <<server, conns, boot, store, saves, btimers, began, waVars, out, clock, jobVars>>

\* POST /reconnect/:sessionId (lines 414-456).
MsReconnect(s) ==
    /\ server = "multi"
    /\ env < MaxMsEvents
    /\ env' = env + 1
    /\ socks' = TornSocks(s)
    /\ sessions' = [sessions EXCEPT ![s] = NoSession]
    /\ timers' = [timers EXCEPT ![s] = AddTimer(TornTimers(s), 1000)]
    /\ owed' = (owed \/ Ends(s))
    /\ UNCHANGED <<server, conns, boot, credVars, waVars, out, clock, jobVars>>

\* POST /clear-session/:sessionId (lines 459-504).
MsClear(s) ==
    /\ server = "multi"
    /\ env < MaxMsEvents
    /\ env' = env + 1
    /\ socks' = TornSocks(s)
    /\ sessions' = [sessions EXCEPT ![s] = NoSession]
    /\ timers' = [timers EXCEPT ![s] = TornTimers(s)]
    /\ owed' = (owed \/ Ends(s))
    /\ auth' = [auth EXCEPT ![s] = EmptyDir]
    /\ began' = Forget(s)
    /\ UNCHANGED <<server, conns, boot, store, saves, btimers, waVars, out, clock, jobVars>>

\* Socket k emits creds.update (lines 189-200): saveCreds writes creds.json
\* with content c, and saveSessionToDatabase is called when more than 30 s
\* have passed since the handler last called it.
MsCredsUpdate(k, c, backup) ==
    /\ server = "multi"
    /\ env < MaxMsEvents
    /\ k \in Live
    /\ backup => Cardinality(saves[socks[k].sid]) < MaxSaves
    /\ env' = env + 1
    /\ auth' = [auth EXCEPT ![socks[k].sid]["creds.json"] = c]
    /\ began' = Forget(socks[k].sid)
    /\ saves' = IF backup
                THEN [saves EXCEPT ![socks[k].sid] = SaveCall(@, auth'[socks[k].sid])]
                ELSE saves
    /\ UNCHANGED <<server, sessions, socks, timers, conns, boot, store, btimers,
                   owed, waVars, out, clock, jobVars>>

\* A faulty variant of the throttle: every update is backed up.
BackupDueAlways(t, last) == TRUE

\* The test of line 194.
BackupDue(t, last) == t - last > ThrottleMs

\* Socket k emits creds.update: the handler calls saveCreds, which writes
\* creds.json with content c, and waits for it (lines 189-190).
MsCredsSaved(k, c) ==
    /\ server = "multi"
    /\ env < MaxMsEvents
    /\ k \in Live
    /\ env' = env + 1
    /\ auth' = [auth EXCEPT ![socks[k].sid]["creds.json"] = c]
    /\ began' = Forget(socks[k].sid)
    /\ socks' = [socks EXCEPT ![k].saving = @ + 1]
    /\ UNCHANGED <<server, sessions, timers, conns, boot, store, saves, btimers,
                   owed, waVars, out, clock, jobVars>>

\* A handler of socket k that waited for saveCreds goes on (lines 193-199):
\* it reads the clock and, when more than 30 s have passed since lastBackup,
\* sets lastBackup and calls saveSessionToDatabase.
MsCredsThrottle(k) ==
    LET due == BackupDue(clock, socks[k].lastBackup)
        sid == socks[k].sid
    IN  /\ server = "multi"
        /\ k \in SockIds
        /\ socks[k].saving > 0
        /\ due => Cardinality(saves[sid]) < MaxSaves
        /\ socks' = Collect([socks EXCEPT
                        ![k].saving = @ - 1,
                        ![k].lastBackup = IF due THEN clock ELSE @,
                        ![k].backedAt = IF due THEN At(clock) ELSE @])
        /\ saves' = IF due THEN [saves EXCEPT ![sid] = SaveCall(@, auth[sid])]
                    ELSE saves
        /\ UNCHANGED <<server, sessions, timers, conns, boot, auth, store, btimers,
                       began, owed, env, waVars, out, clock, jobVars>>

\* Time passes.
ClockAdvance ==
    /\ clock < Epoch + MaxClock * (ThrottleMs \div 2)
    /\ clock' = clock + ThrottleMs \div 2
    /\ UNCHANGED <<server, msVars, waVars, out, owed, env, jobVars>>

\* The transport stores a key of socket k through the auth state it was
\* given (line 150): a key file is written with content c.
MsKeysSet(k, c) ==
    /\ server = "multi"
    /\ env < MaxMsEvents
    /\ k \in Live
    /\ env' = env + 1
    /\ auth' = [auth EXCEPT ![socks[k].sid]["keys.json"] = c]
    /\ began' = Forget(socks[k].sid)
    /\ UNCHANGED <<server, sessions, socks, timers, conns, boot, store, saves,
                   btimers, owed, waVars, out, clock, jobVars>>

\* The timer set on 'open' fires 10 s later (lines 246-250).
MsFirstBackup(s) ==
    /\ server = "multi"
    /\ btimers[s] > 0
    /\ Cardinality(saves[s]) < MaxSaves
    /\ btimers' = [btimers EXCEPT ![s] = @ - 1]
    /\ saves' = [saves EXCEPT ![s] = SaveCall(@, auth[s])]
    /\ UNCHANGED <<server, sessions, socks, timers, conns, boot, auth, store,
                   began, owed, env, waVars, out, clock, jobVars>>

\* The intervals armed for session s: the one of the object in the Map and
\* those of deleted objects, which nothing clears any more.
Intervals(s) ==
    (IF sessions[s].backupInterval THEN 1 ELSE 0)
        + Cardinality({k \in SockIds : socks[k].sid = s /\ socks[k].armed})

\* A backup interval of session s fires (lines 239-243).
MsBackupInterval(s) ==
    /\ server = "multi"
    /\ Intervals(s) > 0
    /\ Cardinality(saves[s]) < MaxSaves
    /\ saves' = [saves EXCEPT ![s] = SaveCall(@, auth[s])]
    /\ UNCHANGED <<server, sessions, socks, timers, conns, boot, auth, store,
                   btimers, began, owed, env, waVars, out, clock, jobVars>>

\* Attempt p.n of a waiting save settles (lines 42-72): the store has kept
\* the data and answers OK, or the attempt fails and the call tries again
\* after its backoff, or gives up after the last attempt.
MsSavePost(s, p, ok) ==
    /\ server = "multi"
    /\ p \in saves[s]
    /\ store' = IF ok THEN StoreSave(store, s, p.blob) ELSE store
    /\ saves' = [saves EXCEPT ![s] =
                    IF ok \/ p.n = SaveRetries THEN @ \ {p}
                    ELSE (@ \ {p}) \cup {SavePos(p.blob, p.n + 1)}]
    /\ UNCHANGED <<server, sessions, socks, timers, conns, boot, auth, btimers,
                   began, owed, env, waVars, out, clock, jobVars>>

\* autoRestoreSessions runs once, 5 s after the server listens (lines
\* 611-638, 659): it sets one timer per session the store lists, 2000 ms
\* apart.  The list is any sequence of distinct session ids; when the store
\* does not answer it is empty.
ListsOf(S) == {l \in UNION {[1..n -> S] : n \in 0..Cardinality(S)} :
                \A i, j \in DOMAIN l : l[i] = l[j] => i = j}
Lists == ListsOf(CallerSids)

\* A faulty variant of autoRestoreSessions: every timer has delay 0.
MsAutoRestoreAtOnce(l) ==
    /\ server = "multi"
    /\ boot = "pending"
    /\ boot' = "done"
    /\ timers' = [s \in Sids |->
                    IF \E i \in DOMAIN l : l[i] = s
                    THEN AddTimer(timers[s], 0)
                    ELSE timers[s]]
    /\ UNCHANGED <<server, sessions, socks, conns, owed, env, credVars, waVars, out, clock, jobVars>>

MsAutoRestore(l) ==
    /\ server = "multi"
    /\ boot = "pending"
    /\ boot' = "done"
    /\ timers' = [s \in Sids |->
                    IF \E i \in DOMAIN l : l[i] = s
                    THEN AddTimer(timers[s], 2000 * ((CHOOSE i \in DOMAIN l : l[i] = s) - 1))
                    ELSE timers[s]]
    /\ UNCHANGED <<server, sessions, socks, conns, owed, env, credVars, waVars, out, clock, jobVars>>

\* autoRestoreSessions runs and the list operation fails: fetch rejects or
\* the body is not JSON, which the catch of line 634 logs, or the answer is
\* not OK (line 615).  No timer is set.
MsListFails ==
    /\ server = "multi"
    /\ boot = "pending"
    /\ boot' = "done"
    /\ UNCHANGED <<server, sessions, socks, timers, conns, owed, env, credVars,
                   waVars, out, clock, jobVars>>

\* ---- the single-session server ----

\* The module variable sock is the socket marked cur; lo counts the /cleanup
\* routes that wait for the logout() of the socket.
WSockIds == 1..Len(wsocks)
WLive == {k \in WSockIds : wsocks[k].phase # "closed"}
WReachable(q) == q.phase # "closed" \/ q.cur \/ q.lo > 0
WCollect(sk) == SelectSeq(sk, WReachable)
HasSock == \E k \in WSockIds : wsocks[k].cur

\* A faulty variant of the end of startBaileys: the guard stays set.
WaCaughtKeepsGuard ==
    /\ wtimers' = wtimers + 1
    /\ starting' = TRUE
    /\ run' = "none"
    /\ owed' = FALSE

\* The catch and the finally of startBaileys (lines 156-161).
WaCaught ==
    /\ wtimers' = wtimers + 1
    /\ starting' = FALSE
    /\ run' = "none"
    /\ owed' = FALSE

\* A timer fires and calls startBaileys (lines 152, 158, 255, 269): the call
\* returns at the guard, or sets it and awaits useMultiFileAuthState (lines
\* 102-107).
WaTimer ==
    /\ server = "single"
    /\ wtimers > 0
    /\ wtimers' = wtimers - 1
    /\ IF starting
       THEN UNCHANGED <<starting, run>>
       ELSE starting' = TRUE /\ run' = "auth"
    /\ UNCHANGED <<lastQR, lastQRpng, meJid, wsocks, renders,
                   isConnected, owed, env, authDir, server, msVars, out, clock, jobRest>>

\* useMultiFileAuthState settles (line 107): the invocation awaits
\* getBaileysVersion, or is in its catch.
WaAuth(ok) ==
    /\ server = "single"
    /\ run = "auth"
    /\ IF ok
       THEN /\ run' = "version"
            /\ UNCHANGED <<wtimers, starting, owed, env>>
       ELSE /\ env < MaxWaEvents
            /\ env' = env + 1
            /\ WaCaught
    /\ UNCHANGED <<lastQR, lastQRpng, meJid, wsocks, renders,
                   isConnected, authDir, server, msVars, out, clock, jobRest>>

\* The sockets after sock = makeWASocket(...) (line 112).
WithWSocket ==
    Append(WCollect([i \in DOMAIN wsocks |-> [wsocks[i] EXCEPT !.cur = FALSE]]),
           [cur |-> TRUE, phase |-> "connecting", user |-> FALSE, lo |-> 0])

\* getBaileysVersion resolves (it never rejects, lines 83-99) and the rest of
\* startBaileys runs (lines 108-161): makeWASocket, the handlers, the
\* finally; or pino or makeWASocket throws.
WaSocket(ok) ==
    /\ server = "single"
    /\ run = "version"
    /\ IF ok
       THEN /\ wsocks' = WithWSocket
            /\ starting' = FALSE
            /\ run' = "none"
            /\ owed' = FALSE
            /\ UNCHANGED <<wtimers, env>>
       ELSE /\ env < MaxWaEvents
            /\ env' = env + 1
            /\ WaCaught
            /\ UNCHANGED wsocks
    /\ UNCHANGED <<lastQR, lastQRpng, meJid, renders,
                   isConnected, authDir, server, msVars, out, clock, jobRest>>

\* Socket k emits a pairing payload: the handler awaits QRCode.toDataURL
\* (lines 124-127).
WaQr(k) ==
    /\ server = "single"
    /\ k \in WSockIds
    /\ wsocks[k].phase = "connecting"
    /\ renders.url + renders.png < MaxRenders
    /\ renders' = [renders EXCEPT !.url = @ + 1]
    /\ UNCHANGED <<lastQR, lastQRpng, meJid, starting, run, wsocks, wtimers,
                   isConnected, owed, env, authDir, server, msVars, out, clock, jobRest>>

\* QRCode.toDataURL settles for a waiting handler (lines 127-136).
WaRenderUrl(ok) ==
    /\ server = "single"
    /\ renders.url > 0
    /\ IF ok
       THEN /\ lastQR' = "qr"
            /\ renders' = [renders EXCEPT !.url = @ - 1, !.png = @ + 1]
            /\ UNCHANGED <<lastQRpng, isConnected>>
       ELSE /\ lastQR' = Null
            /\ lastQRpng' = Null
            /\ isConnected' = FALSE
            /\ renders' = [renders EXCEPT !.url = @ - 1]
    /\ UNCHANGED <<meJid, starting, run, wsocks, wtimers,
                   owed, env, authDir, server, msVars, out, clock, jobRest>>

\* QRCode.toBuffer settles for a waiting handler (lines 128-136).
WaRenderPng(ok) ==
    /\ server = "single"
    /\ renders.png > 0
    /\ renders' = [renders EXCEPT !.png = @ - 1]
    /\ lastQR' = IF ok THEN lastQR ELSE Null
    /\ lastQRpng' = IF ok THEN "png" ELSE Null
    /\ isConnected' = FALSE
    /\ UNCHANGED <<meJid, starting, run, wsocks, wtimers,
                   owed, env, authDir, server, msVars, out, clock, jobRest>>

\* Socket k reports connection 'open' (lines 138-143).  The transport has set
\* the user of socket k; the handler reads the user of the module's sock.
WaOpen(k) ==
    /\ server = "single"
    /\ k \in WSockIds
    /\ wsocks[k].phase = "connecting"
    /\ wsocks' = [wsocks EXCEPT ![k].phase = "open", ![k].user = TRUE]
    /\ isConnected' = TRUE
    /\ lastQR' = Null
    /\ lastQRpng' = Null
    /\ meJid' = IF \E c \in WSockIds : wsocks'[c].cur /\ wsocks'[c].user
                THEN "me" ELSE Null
    /\ UNCHANGED <<starting, run, wtimers, renders,
                   owed, env, authDir, server, msVars, out, clock, jobRest>>

\* A faulty variant of the close handler: it never reconnects.
WaReconnectDelayNever(code, msg) == NoDelay

\* The delay of the timer the close handler sets, if any (lines 146-153).
WaReconnectDelay(code, msg) == IF code # "loggedOut" THEN 3000 ELSE NoDelay

WaAddTimer(n, d) == IF d = NoDelay THEN n ELSE n + 1

\* The transport closes socket k (lines 144-154).
WaClose(k, code, msg) ==
    /\ server = "single"
    /\ env < MaxWaEvents
    /\ k \in WLive
    /\ code # "none"
    /\ env' = env + 1
    /\ wsocks' = WCollect([wsocks EXCEPT ![k].phase = "closed"])
    /\ isConnected' = FALSE
    /\ wtimers' = WaAddTimer(wtimers, WaReconnectDelay(code, msg))
    /\ owed' = (owed \/ code # "loggedOut")
    /\ UNCHANGED <<lastQR, lastQRpng, meJid, starting, run, renders,
                   authDir, server, msVars, out, clock, jobRest>>

\* POST /reconnect (lines 263-274): sock.end() emits the close event of a
\* live socket before it returns, then the route sets its own timer.
WaReconnect ==
    LET ends == \E k \in WLive : wsocks[k].cur
    IN  /\ server = "single"
        /\ env < MaxWaEvents
        /\ env' = env + 1
        /\ lastQR' = Null
        /\ lastQRpng' = Null
        /\ isConnected' = FALSE
        /\ wsocks' = [i \in DOMAIN wsocks |->
                        IF wsocks[i].cur THEN [wsocks[i] EXCEPT !.phase = "closed"]
                        ELSE wsocks[i]]
        /\ wtimers' = (IF ends THEN WaAddTimer(wtimers, WaReconnectDelay("none", "plain"))
                       ELSE wtimers) + 1
        /\ owed' = (owed \/ ends)
        /\ UNCHANGED <<meJid, starting, run, renders, authDir, server, msVars, out, clock, jobRest>>

\* What /cleanup does once its logout has settled (lines 251-255).
CleanupEffect ==
    /\ authDir' = EmptyDir
    /\ isConnected' = FALSE
    /\ lastQR' = Null
    /\ lastQRpng' = Null

\* POST /cleanup is called (lines 248-250): it awaits sock.logout(), or goes
\* on at once when sock is null.
WaCleanup ==
    /\ server = "single"
    /\ env < MaxWaEvents
    /\ env' = env + 1
    /\ IF HasSock
       THEN /\ wsocks' = [i \in DOMAIN wsocks |->
                            IF wsocks[i].cur THEN [wsocks[i] EXCEPT !.lo = @ + 1]
                            ELSE wsocks[i]]
            /\ UNCHANGED <<isConnected, lastQR, lastQRpng, wtimers, authDir>>
       ELSE /\ CleanupEffect
            /\ wtimers' = wtimers + 1
            /\ UNCHANGED wsocks
    /\ UNCHANGED <<meJid, starting, run, renders, owed, server, msVars, out, clock, jobRest>>

\* The logout() of socket k settles for a waiting /cleanup (lines 250-256).
\* When it succeeds on a live socket the socket ends with the logged-out
\* reason and the handler runs; a logout that throws leaves the socket as it
\* is.  Then the route removes the auth directory, resets the flags and sets
\* its timer.
WaCleanupDone(k, ok) ==
    LET ends == ok /\ k \in WLive
    IN  /\ server = "single"
        /\ k \in WSockIds
        /\ wsocks[k].lo > 0
        /\ wsocks' = WCollect([wsocks EXCEPT ![k].lo = @ - 1,
                                             ![k].phase = IF ends THEN "closed" ELSE @])
        /\ CleanupEffect
        /\ wtimers' = (IF ends THEN WaAddTimer(wtimers, WaReconnectDelay("loggedOut", "plain"))
                       ELSE wtimers) + 1
        /\ UNCHANGED <<meJid, starting, run, renders, owed, env, server, msVars, out, clock, jobRest>>

\* Socket k emits creds.update, whose handler is saveCreds (line 119):
\* creds.json is written with content c.
WaCredsUpdate(k, c) ==
    /\ server = "single"
    /\ env < MaxWaEvents
    /\ k \in WLive
    /\ env' = env + 1
    /\ authDir' = [authDir EXCEPT !["creds.json"] = c]
    /\ UNCHANGED <<lastQR, lastQRpng, meJid, starting, run, wsocks, wtimers, renders,
                   isConnected, owed, server, msVars, out, clock, jobRest>>

\* The transport stores a key of socket k through the auth state it was
\* given (line 114): a key file is written with content c.
WaKeysSet(k, c) ==
    /\ server = "single"
    /\ env < MaxWaEvents
    /\ k \in WLive
    /\ env' = env + 1
    /\ authDir' = [authDir EXCEPT !["keys.json"] = c]
    /\ UNCHANGED <<lastQR, lastQRpng, meJid, starting, run, wsocks, wtimers, renders,
                   isConnected, owed, server, msVars, out, clock, jobRest>>

\* ---- the send routes ----

\* A field of a request body: absent (or empty, which the routes' !field
\* tests treat alike) or given.
Missing == "missing"
Given == "given"
Fields == {Missing, Given}

\* The answer of a send route: its HTTP status and the error it names, and
\* whether the route called sock.sendMessage before answering.
Reply(code, error, sent) == [code |-> code, error |-> error, sent |-> sent]
NoReply == Reply(0, Null, FALSE)

\* Faulty variants of the routes: no check of the connection.
SendMessageReplyNoCheck(hasId, s, number, message, resolves) ==
    IF ~hasId THEN Reply(400, "session_id", FALSE)
    ELSE IF number = Missing \/ message = Missing THEN Reply(400, "fields", FALSE)
    ELSE IF resolves THEN Reply(200, Null, TRUE)
    ELSE Reply(500, "send_error", TRUE)

\* POST /send-message (lines 360-411) with the body fields session_id (the
\* id s, or none), number and message: the answer, given how sendMessage
\* settles when it is called.
SendMessageReply(hasId, s, number, message, resolves) ==
    IF ~hasId THEN Reply(400, "session_id", FALSE)
    ELSE IF number = Missing \/ message = Missing THEN Reply(400, "fields", FALSE)
    ELSE IF ~Has(s) \/ ~sessions[s].isConnected THEN Reply(400, "not_connected", FALSE)
    ELSE IF resolves THEN Reply(200, Null, TRUE)
    ELSE Reply(500, "send_error", TRUE)

MsSend(hasId, s, number, message, resolves) ==
    /\ server = "multi"
    /\ env < MaxMsEvents
    /\ env' = env + 1
    /\ out' = SendMessageReply(hasId, s, number, message, resolves)
    /\ UNCHANGED <<server, msVars, waVars, owed, clock, jobVars>>

\* POST /send (lines 213-225) with the body fields to and text.
SendReply(connected, to, text, resolves) ==
    IF ~connected THEN Reply(503, "not_connected", FALSE)
    ELSE IF to = Missing \/ text = Missing THEN Reply(400, "fields", FALSE)
    ELSE IF resolves THEN Reply(200, Null, TRUE)
    ELSE Reply(500, "send_error", TRUE)

WaSend(to, text, resolves) ==
    /\ server = "single"
    /\ env < MaxWaEvents
    /\ env' = env + 1
    /\ out' = SendReply(isConnected, to, text, resolves)
    /\ UNCHANGED <<server, msVars, waVars, owed, clock, jobVars>>

\* ---- the schedule route ----

\* The send_at field of a request body: absent or empty, a text that is no
\* date, or the ISO text of the instant t.
NoText == <<>>
BadText == <<"x">>
IsoText(t) == <<"iso", t>>
SendAts == {NoText, BadText} \cup {IsoText(t) : t \in 0..MaxTime}

\* new Date(send_at).getTime() (lines 232-233): the instant the text names, or
\* NaN.
NaN == 0 - 1
ParseDate(x) == IF Len(x) = 2 /\ x[1] = "iso" THEN x[2] ELSE NaN

\* A faulty variant of the validation: the parsed time is not checked.
ScheduleReplyNoDateCheck(to, text, sendAt, stored) ==
    IF to = Missing \/ text = Missing \/ sendAt = NoText
    THEN Reply(400, "fields", FALSE)
    ELSE IF stored THEN Reply(200, Null, FALSE)
    ELSE Reply(500, "store", FALSE)

\* POST /schedule (lines 227-245) with the body fields to, text and send_at:
\* the answer, given whether the store executes the INSERT.
ScheduleReply(to, text, sendAt, stored) ==
    IF to = Missing \/ text = Missing \/ sendAt = NoText
    THEN Reply(400, "fields", FALSE)
    ELSE IF ParseDate(sendAt) = NaN THEN Reply(400, "send_at", FALSE)
    ELSE IF stored THEN Reply(200, Null, FALSE)
    ELSE Reply(500, "store", FALSE)

PostSchedule(to, text, sendAt, stored) ==
    LET reply == ScheduleReply(to, text, sendAt, stored)
    IN  /\ out' = reply
        /\ IF reply.code = 200
           THEN /\ Len(jobs) < MaxJobs
                /\ jobs' = Append(jobs, NewJob(ParseDate(sendAt)))
                /\ hist' = Append(hist, NewHist)
           ELSE UNCHANGED <<jobs, hist>>
        /\ UNCHANGED <<now, isConnected, tick, faults, server, msVars, waVars, clock, owed, env>>

\* ---- the start of either server ----

\* The multi-session server listens with an empty Map and autoRestoreSessions
\* ahead (lines 16, 641-659); the single-session server is in the
\* startBaileys that boot calls (lines 42-48, 315-317).
SessInit(sv) ==
    /\ server = sv
    /\ sessions = [s \in Sids |-> NoSession]
    /\ socks = <<>>
    /\ timers = [s \in Sids |-> NoTimers]
    /\ conns = [s \in Sids |-> NoConns]
    /\ boot = IF sv = "multi" THEN "pending" ELSE "done"
    /\ auth = [s \in Sids |-> EmptyDir]
    /\ saves = [s \in Sids |-> {}]
    /\ btimers = [s \in Sids |-> 0]
    /\ began = [s \in Sids |-> Unknown]
    /\ authDir = EmptyDir
    /\ lastQR = Null
    /\ lastQRpng = Null
    /\ meJid = Null
    /\ starting = (sv = "single")
    /\ run = IF sv = "single" THEN "auth" ELSE "none"
    /\ wsocks = <<>>
    /\ wtimers = 0
    /\ renders = [url |-> 0, png |-> 0]
    /\ out = NoReply
    /\ clock = Epoch
    /\ owed = FALSE
    /\ env = 0

(***************************************************************************)
(* Specifications                                                          *)
(***************************************************************************)
JobInit ==
    /\ now = 0
    /\ jobs = <<>>
    /\ isConnected = FALSE
    /\ tick = [t \in Ticks |-> IdleTick]
    /\ hist = <<>>
    /\ faults = 0

Init == JobInit /\ SessInit("single") /\ store = [s \in Sids |-> NoRecord]

Next ==
    \/ \E s \in 0..MaxTime : Schedule(s)
    \/ \E t \in Ticks : TickSelect(t)
    \/ \E t \in Ticks : TickClaim(t)
    \/ \E t \in Ticks, r \in BOOLEAN : TickSendDone(t, r)
    \/ \E t \in Ticks : TickMark(t)
    \/ \E t \in Ticks : StoreError(t)
    \/ \E c \in BOOLEAN : SessionEvent(c)
    \/ Crash
    \/ ClockTick

Spec == Init /\ [][Next]_vars

(***************************************************************************)
(* The dispatcher under fair scheduling: the interval timer keeps firing,  *)
(* every awaited statement and send settles, the clock advances; at most   *)
(* MaxFaults faults (a crash with restart, a store error) occur.           *)
(***************************************************************************)
FaultCrash ==
    /\ faults < MaxFaults
    /\ faults' = faults + 1
    /\ CrashEffect

\* A faulty variant of the store error: the claiming UPDATE takes effect
\* although the tick that issued it has ended.
FaultStoreErrorExecutes(t) ==
    /\ faults < MaxFaults
    /\ faults' = faults + 1
    /\ tick[t].pc \in {"claim", "mark"}
    /\ tick' = [tick EXCEPT ![t] = IdleTick]
    /\ jobs' = [jobs EXCEPT ![CurJob(tick[t])].status = "processing"]
    /\ UNCHANGED <<now, isConnected, hist, sessVars>>

FaultStoreError(t) ==
    /\ faults < MaxFaults
    /\ faults' = faults + 1
    /\ tick[t].pc \in {"claim", "mark"}
    /\ tick' = [tick EXCEPT ![t] = IdleTick]
    /\ UNCHANGED <<now, jobs, isConnected, hist, sessVars>>

FairNext ==
    \/ \E s \in 0..MaxTime : Schedule(s)
    \/ \E t \in Ticks : TickSelect(t)
    \/ \E t \in Ticks : TickClaim(t)
    \/ \E t \in Ticks, r \in BOOLEAN : TickSendDone(t, r)
    \/ \E t \in Ticks : TickMark(t)
    \/ \E c \in BOOLEAN : SessionEvent(c)
    \/ \E t \in Ticks : FaultStoreError(t)
    \/ FaultCrash
    \/ ClockTick

FairSpec ==
    /\ Init
    /\ [][FairNext]_vars
    /\ WF_vars(ClockTick)
    /\ \A t \in Ticks : /\ WF_vars(TickSelect(t))
                        /\ WF_vars(TickClaim(t))
                        /\ WF_vars(\E r \in BOOLEAN : TickSendDone(t, r))
                        /\ WF_vars(TickMark(t))

\* A run of either server, from its start, in which the credential store
\* holds no record and the transport reports no credentials: the auth
\* directories stay empty, and a backup that finds no file sends nothing
\* (lines 22, 36), so the backups are not followed.
SessSpecInit ==
    /\ JobInit
    /\ \E sv \in {"multi", "single"} : SessInit(sv)
    /\ store = [s \in Sids |-> NoRecord]

MsNext ==
    \/ \E k \in SockIds, c \in Codes, m \in Messages : MsClose(k, c, m)
    \/ \E k \in SockIds : MsQr(k)
    \/ \E k \in SockIds : MsOpen(k)
    \/ \E k \in SockIds : MsConnecting(k)
    \/ \E s \in Sids, d \in Delays : MsTimer(s, d)
    \/ \E s \in Sids, n \in 1..Retries, o \in Outcomes : MsRestore(s, n, o)
    \/ \E s \in Sids, r \in Results, ok \in BOOLEAN : MsSetup(s, r, ok)
    \/ \E s \in CallerSids : MsQrRequest(s)
    \/ \E s \in CallerSids : MsReconnect(s)
    \/ \E s \in CallerSids : MsClear(s)
    \/ \E l \in Lists : MsAutoRestore(l)

WaNext ==
    \/ WaTimer
    \/ \E ok \in BOOLEAN : WaAuth(ok)
    \/ \E ok \in BOOLEAN : WaSocket(ok)
    \/ \E k \in WSockIds : WaQr(k)
    \/ \E ok \in BOOLEAN : WaRenderUrl(ok)
    \/ \E ok \in BOOLEAN : WaRenderPng(ok)
    \/ \E k \in WSockIds : WaOpen(k)
    \/ \E k \in WSockIds, c \in Codes, m \in Messages : WaClose(k, c, m)
    \/ WaReconnect
    \/ WaCleanup
    \/ \E k \in WSockIds, ok \in BOOLEAN : WaCleanupDone(k, ok)

SessNext == MsNext \/ WaNext

SessSpec == SessSpecInit /\ [][SessNext]_vars

\* A step of the program that waits for nothing outside it but a timer or the
\* settling of a call it awaits.
Internal ==
    \/ \E s \in Sids, d \in Delays : MsTimer(s, d)
    \/ \E s \in Sids, n \in 1..Retries, o \in Outcomes : MsRestore(s, n, o)
    \/ \E s \in Sids, r \in Results, ok \in BOOLEAN : MsSetup(s, r, ok)
    \/ WaTimer
    \/ \E ok \in BOOLEAN : WaAuth(ok)
    \/ \E ok \in BOOLEAN : WaSocket(ok)

\* What the scheduling of the code guarantees: a timer that is set fires, and
\* an awaited call of the connect routine settles (the restore gives up
\* after 10 s per attempt, lines 85 and 125).  Nothing is assumed of the
\* transport or of the callers.
SessFairness == WF_vars(Internal)

FairSessSpec == SessSpecInit /\ [][SessNext]_vars /\ SessFairness

(***************************************************************************)
(* A run of either server with its credentials: the store may hold a       *)
(* record when the server starts, the transport reports credentials and    *)
(* writes keys, and the backups run.                                       *)
(***************************************************************************)
\* The records the credential store may hold when the server starts.
InitRecords == {NoRecord, [f \in Files |-> "a"]}

CredInit ==
    /\ JobInit
    /\ \E sv \in {"multi", "single"} :
          /\ SessInit(sv)
          /\ store \in {st \in [Sids -> IF sv = "multi" THEN InitRecords ELSE {NoRecord}] :
                          \A s \in Sids \ CallerSids : st[s] = NoRecord}

MsCredNext ==
    \/ \E k \in SockIds, c \in Contents, b \in BOOLEAN : MsCredsUpdate(k, c, b)
    \/ \E k \in SockIds, c \in Contents : MsKeysSet(k, c)
    \/ \E s \in Sids : MsFirstBackup(s)
    \/ \E s \in Sids : MsBackupInterval(s)
    \/ \E s \in Sids : \E p \in saves[s], ok \in BOOLEAN : MsSavePost(s, p, ok)

WaCredNext ==
    \/ \E k \in WSockIds, c \in Contents : WaCredsUpdate(k, c)
    \/ \E k \in WSockIds, c \in Contents : WaKeysSet(k, c)

CredNext == SessNext \/ MsCredNext \/ WaCredNext

CredSpec == CredInit /\ [][CredNext]_vars

(***************************************************************************)
(* The dispatcher with the callers of the schedule route, whatever their   *)
(* request bodies hold.                                                    *)
(***************************************************************************)
SubmitNext ==
    \/ \E to \in Fields, text \in Fields, sendAt \in SendAts, stored \in BOOLEAN :
          PostSchedule(to, text, sendAt, stored)
    \/ \E t \in Ticks : TickSelect(t)
    \/ \E t \in Ticks : TickClaim(t)
    \/ \E t \in Ticks, r \in BOOLEAN : TickSendDone(t, r)
    \/ \E t \in Ticks : TickMark(t)
    \/ \E t \in Ticks : StoreError(t)
    \/ \E c \in BOOLEAN : SessionEvent(c)
    \/ Crash
    \/ ClockTick

SubmitSpec == Init /\ [][SubmitNext]_vars

(***************************************************************************)
(* A run of either server with the callers of its send route.              *)
(***************************************************************************)
\* A run of the multi-session server in which time passes and the transport
\* reports credentials: the creds.update handler with its throttle.
ThrottleInit ==
    /\ JobInit
    /\ SessInit("multi")
    /\ store = [s \in Sids |-> NoRecord]

ThrottleNext ==
    \/ MsNext
    \/ \E k \in SockIds, c \in Contents : MsCredsSaved(k, c)
    \/ \E k \in SockIds : MsCredsThrottle(k)
    \/ \E s \in Sids : \E p \in saves[s], ok \in BOOLEAN : MsSavePost(s, p, ok)
    \/ ClockAdvance

ThrottleSpec == ThrottleInit /\ [][ThrottleNext]_vars

\* The store is unreachable when the interval timer calls runSchedulerTick:
\* the SELECT rejects (lines 279-286), the catch of line 310 logs, and the
\* tick ends having read no row.
SelectError(t) ==
    /\ faults < MaxFaults
    /\ faults' = faults + 1
    /\ tick[t].pc = "idle"
    /\ \A u \in Ticks : u < t => tick[u].pc # "idle"
    /\ UNCHANGED <<now, jobs, isConnected, tick, hist, sessVars>>

\* The dispatcher with a job store that is unreachable now and then: any of
\* its statements may reject, and faults counts the statements that did.
OutageNext ==
    \/ \E s \in 0..MaxTime : Schedule(s)
    \/ \E t \in Ticks : TickSelect(t)
    \/ \E t \in Ticks : TickClaim(t)
    \/ \E t \in Ticks, r \in BOOLEAN : TickSendDone(t, r)
    \/ \E t \in Ticks : TickMark(t)
    \/ \E t \in Ticks : SelectError(t)
    \/ \E t \in Ticks : FaultStoreError(t)
    \/ \E c \in BOOLEAN : SessionEvent(c)
    \/ Crash
    \/ ClockTick

OutageSpec == Init /\ [][OutageNext]_vars

\* The start of the multi-session server with a store that lists any of the
\* sessions, or fails to: autoRestoreSessions, the timers it sets and the
\* connections they start.
BootLists == ListsOf(Sids)

BootNext ==
    \/ \E l \in BootLists : MsAutoRestore(l)
    \/ MsListFails
    \/ \E s \in Sids, d \in Delays : MsTimer(s, d)
    \/ \E s \in Sids, n \in 1..Retries, o \in Outcomes : MsRestore(s, n, o)
    \/ \E s \in Sids, r \in Results, ok \in BOOLEAN : MsSetup(s, r, ok)
    \/ \E k \in SockIds : MsConnecting(k)
    \/ \E k \in SockIds : MsOpen(k)

BootSpec == ThrottleInit /\ [][BootNext]_vars

\* The multi-session server with two sessions side by side: the callers name
\* one in their requests and the store lists the other, whose connection
\* autoRestoreSessions starts.  Events of the transport, timers and awaited
\* calls come for both.
PairNext ==
    \/ \E k \in SockIds, c \in Codes, m \in Messages : MsClose(k, c, m)
    \/ \E k \in SockIds : MsQr(k)
    \/ \E k \in SockIds : MsOpen(k)
    \/ \E k \in SockIds : MsConnecting(k)
    \/ \E s \in Sids, d \in Delays : MsTimer(s, d)
    \/ \E s \in Sids, n \in 1..Retries, o \in Outcomes : MsRestore(s, n, o)
    \/ \E s \in Sids, r \in Results, ok \in BOOLEAN : MsSetup(s, r, ok)
    \/ \E s \in CallerSids : MsQrRequest(s)
    \/ \E s \in CallerSids : MsReconnect(s)
    \/ \E s \in CallerSids : MsClear(s)
    \/ \E l \in ListsOf(Sids \ CallerSids) : MsAutoRestore(l)
    \/ \E h \in BOOLEAN, s \in CallerSids, n \in Fields, m \in Fields, r \in BOOLEAN :
          MsSend(h, s, n, m, r)

PairSpec == ThrottleInit /\ [][PairNext]_vars

SendNext ==
    \/ \E h \in BOOLEAN, s \in CallerSids, n \in Fields, m \in Fields, r \in BOOLEAN :
          MsSend(h, s, n, m, r)
    \/ \E t \in Fields, x \in Fields, r \in BOOLEAN : WaSend(t, x, r)

SendSpec == SessSpecInit /\ [][SessNext \/ SendNext]_vars


(***************************************************************************)
(* Properties of the job queue and the dispatcher                          *)
(***************************************************************************)
Terminal == {"sent", "failed"}

\* The ticks that hold job j past its claim.
Holders(j) == {t \in Ticks : tick[t].job = j /\ tick[t].pc \in {"send", "mark"}}

\* The rows a tick has still to go through, the current one first.
Batch(tk) == IF tk.pc = "idle" THEN <<>> ELSE <<tk.job>> \o tk.rest

InBatch(j, tk) == \E i \in 1..Len(Batch(tk)) : Batch(tk)[i] = j

\* C1: however the store statements of concurrent ticks interleave, a job
\* is moved queued -> processing by at most one tick (one successful claim),
\* at most one tick holds it past the claim, every other tick's UPDATE
\* matches no row, and a job never gets a second outcome write: a job with an
\* outcome (sent, failed) has exactly one markSent/markFailed and one claim,
\* a job without one has none.
C1_SingleClaim ==
    \A j \in JobIds :
        /\ hist[j].claims <= 1
        /\ hist[j].marks <= 1
        /\ Cardinality(Holders(j)) <= 1
        /\ (jobs[j].status = "queued") <=> (hist[j].claims = 0)
        /\ (jobs[j].status \in Terminal) <=> (hist[j].marks = 1)
        /\ Holders(j) # {} => jobs[j].status = "processing"

\* Two ticks selected the same job; one won the claim and holds it, the
\* other's claiming UPDATE is about to match no row.
C1_Witness ==
    \E j \in JobIds : \E t, u \in Ticks :
        /\ t # u
        /\ t \in Holders(j)
        /\ tick[u].pc = "claim" /\ tick[u].job = j

\* C2: sock.sendMessage is called at most once for a job, over all ticks,
\* crashes and restarts.
C2_SendAtMostOnce == \A j \in JobIds : hist[j].sends <= 1

\* A job was sent once, its tick is gone before the outcome was written (a
\* crash or a store error), and a later tick is running.
C2_Witness ==
    \E j \in JobIds :
        /\ hist[j].sends = 1
        /\ jobs[j].status = "processing"
        /\ Holders(j) = {}
        /\ \E t \in Ticks : tick[t].pc = "claim"

\* C3: every accepted job eventually leaves queued and processing, under
\* fair ticking, whatever faults happen.
C3_EveryJobSettles ==
    \A j \in 1..MaxJobs :
        (j \in JobIds /\ jobs[j].status \notin Terminal)
            ~> (j \in JobIds /\ jobs[j].status \in Terminal)

\* The other queued jobs due at time t that ORDER BY send_at may put before j.
AtOrBefore(j, t) == {i \in Due(jobs, t) \ {j} : jobs[i].send_at <= jobs[j].send_at}
\* The queued jobs due at time t with an earlier send_at than j.
Earlier(j, t) == {i \in Due(jobs, t) : jobs[i].send_at < jobs[j].send_at}

\* A job leaves queued only at or after its send_at.
NotBeforeSendAt ==
    \A j \in JobIds :
        (jobs[j].status = "queued" /\ jobs'[j].status # "queued")
            => jobs[j].send_at <= now

\* A tick leaves the job it is about to claim only when the job is no
\* longer queued (it claimed it, or another tick had), unless a fault ends
\* the tick.
ClaimsWhatItSelected ==
    \A t \in Ticks :
        TickClaim(t) => jobs'[tick[t].job].status # "queued"

\* C4 as amended: the SELECT of a tick returns every due queued job that has
\* fewer than Limit other due queued jobs with a send_at at or before its
\* own, and the tick then claims each job it selected unless another tick
\* did; a job is never moved out of queued before its send_at.
C4_DueClaimedFutureNot ==
    [][ /\ \A t \in Ticks :
             TickSelect(t) =>
                 \A j \in Due(jobs, now) :
                     Cardinality(AtOrBefore(j, now)) < Limit => InBatch(j, tick'[t])
        /\ ClaimsWhatItSelected
        /\ NotBeforeSendAt ]_vars

\* C4 as stated: the next tick selects every due queued job that has fewer
\* than Limit queued jobs due earlier.
C4_Original ==
    [][ /\ \A t \in Ticks :
             TickSelect(t) =>
                 \A j \in Due(jobs, now) :
                     Cardinality(Earlier(j, now)) < Limit => InBatch(j, tick'[t])
        /\ ClaimsWhatItSelected
        /\ NotBeforeSendAt ]_vars

\* A tick has claimed a due job while a job with a later send_at is still
\* queued.
C4_Witness ==
    \E j, k \in JobIds :
        /\ jobs[j].status = "queued" /\ jobs[j].send_at > now
        /\ jobs[k].status = "processing" /\ Holders(k) # {}

Sorted(b) == \A i, k \in 1..Len(b) : i < k => jobs[b[i]].send_at <= jobs[b[k]].send_at

C6_Outcomes ==
    [][ \A t \in Ticks :
          LET j == tick[t].job IN
          /\ (TickClaim(t) /\ jobs[j].status = "queued") =>
               IF isConnected
               THEN /\ tick'[t].pc = "send"
                    /\ hist'[j].sends = hist[j].sends + 1
               ELSE /\ tick'[t].pc = "mark"
                    /\ ~tick'[t].ok /\ tick'[t].err = "desconectado"
                    /\ hist'[j].sends = hist[j].sends
          /\ \A r \in BOOLEAN :
               TickSendDone(t, r) =>
                 /\ tick'[t].ok = r
                 /\ ~r => tick'[t].err = "send_error"
          /\ TickMark(t) =>
               IF tick[t].ok
               THEN /\ jobs'[j].status = "sent"
                    /\ jobs'[j].sent_at # NoTime
                    /\ jobs'[j].error = Null
               ELSE /\ jobs'[j].status = "failed"
                    /\ jobs'[j].error = tick[t].err /\ tick[t].err # Null
                    /\ jobs'[j].sent_at = NoTime ]_vars

\* One job failed for want of a connection without a send, another was sent.
C6_Witness ==
    \E j, k \in JobIds :
        /\ jobs[j].status = "failed" /\ jobs[j].error = "desconectado"
        /\ hist[j].sends = 0 /\ jobs[j].sent_at = NoTime
        /\ jobs[k].status = "sent" /\ jobs[k].sent_at # NoTime

\* C7: a job in sent or failed never changes again and is never sent again;
\* the status of a job moves only queued -> processing -> sent or failed.
C7_TerminalStable ==
    [][ \A j \in JobIds :
          /\ jobs[j].status \in Terminal =>
               /\ jobs'[j] = jobs[j]
               /\ hist'[j].sends = hist[j].sends
          /\ jobs'[j].status # jobs[j].status =>
               \/ jobs[j].status = "queued" /\ jobs'[j].status = "processing"
               \/ jobs[j].status = "processing" /\ jobs'[j].status \in Terminal ]_vars

\* A job has failed and a later tick, which selected it while it was still
\* queued, comes to claim it.
C7_Witness ==
    \E j \in JobIds : \E t \in Ticks :
        /\ jobs[j].status = "failed"
        /\ tick[t].pc = "claim" /\ tick[t].job = j


(***************************************************************************)
(* Claims of Part II                                                       *)
(***************************************************************************)

\* C8: a close event whose reason is the logged-out signal, whatever the text
\* of its error message, schedules no reconnect and starts no connection
\* attempt.
C8_LoggedOutNeverReconnects ==
    [][((\E k \in SockIds, m \in Messages : MsClose(k, "loggedOut", m))
          \/ (\E k \in WSockIds, m \in Messages : WaClose(k, "loggedOut", m)))
       => (timers' = timers /\ conns' = conns /\ wtimers' = wtimers /\ run' = run)]_vars

\* C9: after a close event whose reason is not a logout, a connection attempt
\* is eventually made with no command from outside: a connect routine
\* reaches makeWASocket, or fails in its setup, after the close.  This holds
\* also when the close arrives while a start is in progress.
C9_ReconnectNeverLost == owed ~> ~owed

\* A close that was not a logout has arrived at the single-session server
\* while a start is in progress, and the timer of the close is pending.
C9_Witness ==
    /\ server = "single"
    /\ owed
    /\ starting
    /\ wtimers > 0
    /\ \E k \in WSockIds : wsocks[k].phase = "closed"

RECURSIVE Sum(_, _)
Sum(cs, ps) == IF ps = {} THEN 0
               ELSE LET p == CHOOSE q \in ps : TRUE IN cs[p] + Sum(cs, ps \ {p})
\* The number of invocations of connectToWhatsApp in flight.
Total(cs) == Sum(cs, Positions)

\* C10: an attempt of the restore that fails never throws into
\* connectToWhatsApp (no invocation is lost, no session is put in error);
\* after the last attempt has failed the invocation goes on to
\* useMultiFileAuthState and, when that resolves, makes a socket; and the
\* pairing event of that socket puts the session in qr_ready with the payload.
C10_RestoreFailureStillPairs ==
    [][/\ \A s \in Sids, n \in 1..Retries, o \in {"empty", "notfound", "error"} :
            MsRestore(s, n, o) =>
                /\ sessions' = sessions
                /\ Total(conns'[s]) = Total(conns[s])
                /\ (n = Retries /\ o # "notfound") =>
                      conns'[s][AuthPos("exhausted")] = conns[s][AuthPos("exhausted")] + 1
       /\ \A s \in Sids :
            MsSetup(s, "exhausted", TRUE) =>
                /\ Has(s)'
                /\ \E k \in SockIds' :
                      socks'[k] = NewSocket(s, "exhausted")
       /\ \A k \in SockIds :
            (socks[k].restore = "exhausted" /\ socks[k].att /\ MsQr(k)) =>
                /\ sessions'[socks[k].sid].status = "qr_ready"
                /\ sessions'[socks[k].sid].qrCode # ""]_vars

\* The restore of a session ran out of attempts, the socket made after it is
\* live and is the sock of the session in the Map, which is in qr_ready with
\* a payload.
C10_Witness ==
    \E k \in Live :
        /\ socks[k].restore = "exhausted"
        /\ socks[k].att /\ socks[k].cur
        /\ sessions[socks[k].sid].status = "qr_ready"
        /\ sessions[socks[k].sid].qrCode # ""

(***************************************************************************)
(* Claims about the credentials                                            *)
(***************************************************************************)

\* C11: round trip.  When a restore succeeds, the auth directory of the
\* session holds exactly what the save that the store kept had read: the same
\* files with the same contents.
C11_RoundTrip ==
    [][\A s \in Sids, n \in 1..Retries :
          MsRestore(s, n, "data") => auth'[s] = StoreRestore(store, s)]_vars

\* C12: a restore is all-or-nothing.  When restoreSessionFromDatabase returns,
\* with true or with false, the auth directory of the session is exactly the
\* stored record or exactly what it was when the restore began.
C12_AllOrNothing ==
    [][\A s \in Sids, n \in 1..Retries, o \in Outcomes :
          (MsRestore(s, n, o) /\ RestoreNext(n, o).at # "restore" /\ began[s] # Unknown)
            => auth'[s] \in {StoreRestore(store, s), began[s]}]_vars

(***************************************************************************)
(* Claims about the sessions of the multi-session server                   *)
(***************************************************************************)
\* The transport connections that are open for session s and whose handlers
\* write its registered session object.
Connections(s) == {k \in Live : socks[k].sid = s /\ socks[k].att}

\* C13: single-flight creation.  While only requests call the connect routine
\* (autoRestoreSessions has not run yet), the requests that reference one
\* sessionId construct one transport connection for it, however they
\* interleave.
C13_SingleFlight ==
    \A s \in Sids : boot = "pending" => Cardinality(Connections(s)) <= 1

\* A call of connectToWhatsApp for session s is in flight, or a timer that
\* will call it is pending.
Connecting(s) == \E p \in Positions : conns[s][p] > 0
Pending(s) == \E d \in Delays : timers[s][d] > 0

\* C14: a connect routine that fails puts the session in error and schedules
\* a retry, so that a session in error always has a pending timer, a live
\* connection or a connect routine under way.
C14_ErrorRetries ==
    \A s \in Sids :
        sessions[s].status = "error" =>
            Pending(s) \/ Connections(s) # {} \/ Connecting(s)

(***************************************************************************)
(* Claims about the commands                                               *)
(***************************************************************************)
\* The current transport connection of the single session.
WCurrent == {k \in WLive : wsocks[k].cur}

C16_CleanupRemoves ==
    [][/\ \A s \in Sids :
            MsClear(s) => auth'[s] = EmptyDir /\ StoreRestore(store', s) = NoRecord
       /\ (WaCleanup /\ ~HasSock) => authDir' = EmptyDir
       /\ \A k \in WSockIds, ok \in BOOLEAN :
            WaCleanupDone(k, ok) => authDir' = EmptyDir]_vars

\* C17: when the cleanup command has completed for a session the server
\* knows, a fresh connection attempt is on its way without any further
\* command: a timer that calls the connect routine is pending or the routine
\* is under way, also when the logout through the transport failed.
C17_CleanupRestarts ==
    [][/\ \A s \in Sids :
            (MsClear(s) /\ Has(s)) => (Pending(s) \/ Connecting(s))'
       /\ (WaCleanup /\ ~HasSock) => wtimers' > 0
       /\ \A k \in WSockIds, ok \in BOOLEAN :
            WaCleanupDone(k, ok) => wtimers' > 0]_vars

(***************************************************************************)
(* Claims about the fields of a session                                    *)
(***************************************************************************)
\* C18: the backup interval of a session is armed only while the session is
\* connected.
C18_BackupOnlyConnected ==
    \A s \in Sids : sessions[s].backupInterval => sessions[s].status = "connected"

\* C19: a session holds a pairing payload only while its status is the
\* pairing-pending status.
C19_PayloadOnlyPending ==
    \A s \in Sids : sessions[s].qrCode # "" => sessions[s].status = "qr_ready"

\* C20: the identity of the session, which the health query reports, is set
\* only while the session is connected.
C20_IdentityOnlyConnected ==
    server = "single" => (meJid # Null => isConnected)

(***************************************************************************)
(* Claims about the requests                                               *)
(***************************************************************************)
\* C21: an immediate send submitted while the target session is absent or not
\* connected is answered with an error, sendMessage is not called, no job is
\* created and no state of a session changes.
C21_SendNotConnected ==
    [][/\ \A h \in BOOLEAN, s \in Sids, n \in Fields, m \in Fields, r \in BOOLEAN :
            (MsSend(h, s, n, m, r) /\ (~h \/ ~Has(s) \/ ~sessions[s].isConnected)) =>
                /\ out'.code >= 400 /\ ~out'.sent
                /\ UNCHANGED <<jobs, msVars>>
       /\ \A t \in Fields, x \in Fields, r \in BOOLEAN :
            (WaSend(t, x, r) /\ ~isConnected) =>
                /\ out'.code >= 400 /\ ~out'.sent
                /\ UNCHANGED <<jobs, isConnected, waVars>>]_vars

\* A complete send request has been refused because the session it names,
\* which is registered, is not connected.
C21_Witness ==
    /\ out.error = "not_connected"
    /\ ~out.sent
    /\ env = 1
    /\ \/ server = "single"
       \/ \E s \in Sids : Has(s) /\ ~sessions[s].isConnected

\* C22: a schedule submission without destination, without text, without send
\* time or with a send time that is no date is refused with status 400 at
\* once and leaves the job table as it is.
C22_InvalidRejected ==
    [][\A to \in Fields, text \in Fields, sendAt \in SendAts, stored \in BOOLEAN :
          (/\ (to = Missing \/ text = Missing \/ sendAt \in {NoText, BadText})
           /\ PostSchedule(to, text, sendAt, stored))
            => out'.code = 400 /\ jobs' = jobs]_vars

\* A submission whose send time is no date has been refused while the table
\* holds a job.
C22_Witness ==
    out = Reply(400, "send_at", FALSE) /\ Len(jobs) = 1

\* What a submission that creates a job does to the table: one new row, in
\* status queued, whose id is larger than every id before it, and no other
\* row changes.
Enqueued ==
    /\ Len(jobs') = Len(jobs) + 1
    /\ jobs'[Len(jobs')].status = "queued"
    /\ \A j \in JobIds : jobs'[j] = jobs[j]

\* C23 as stated: a valid schedule submission always creates one new queued
\* job with a fresh id, connected or not, changes no other job, and no step
\* ever removes a job.
C23_Original ==
    [][/\ \A t \in 0..MaxTime, stored \in BOOLEAN :
            PostSchedule(Given, Given, IsoText(t), stored) => Enqueued
       /\ Len(jobs') >= Len(jobs)]_vars

\* C23, amended: a valid schedule submission whose INSERT the store executes
\* creates one new queued job with a fresh id, connected or not, and changes
\* no other job; one whose INSERT fails is answered with status 500 and
\* creates none; and no step ever removes a job.
C23_ValidEnqueues ==
    [][/\ \A t \in 0..MaxTime :
            /\ PostSchedule(Given, Given, IsoText(t), TRUE) => Enqueued /\ out'.code = 200
            /\ PostSchedule(Given, Given, IsoText(t), FALSE) => jobs' = jobs /\ out'.code = 500
       /\ Len(jobs') >= Len(jobs)]_vars

\* A second job has been enqueued, after the first was sent, and by a process
\* that is not connected.
C23_Witness ==
    /\ out.code = 200
    /\ Len(jobs) = 2
    /\ jobs[1].status = "sent"
    /\ jobs[2].status = "queued"
    /\ ~isConnected

(***************************************************************************)
(* Claims about the retries, the throttle and the timers                   *)
(***************************************************************************)
\* C24: a save and a restore make at most their configured number of
\* attempts whatever the store answers, wait k times a base delay between
\* attempt k and attempt k + 1, and end without an exception reaching the
\* caller.
C24_BoundedRetries ==
    [][/\ \A s \in Sids, n \in 1..Retries, o \in Outcomes :
            MsRestore(s, n, o) =>
                /\ RestoreNext(n, o) # ThrownPos
                /\ RestoreNext(n, o).at = "restore" =>
                      /\ n < Retries
                      /\ RestoreWait(1, "error") > 0
                      /\ RestoreWait(n, o) = n * RestoreWait(1, "error")
       /\ \A s \in Sids : \A p \in saves[s], ok \in BOOLEAN :
            MsSavePost(s, p, ok) =>
                /\ p.n \in 1..SaveRetries
                /\ \A q \in saves'[s] \ saves[s] :
                      /\ q.n = p.n + 1 /\ q.n <= SaveRetries
                      /\ SaveWait(1) > 0
                      /\ SaveWait(p.n) = p.n * SaveWait(1)]_vars

\* C25: a statement of a tick that finds the job store unreachable ends that
\* tick and nothing else: the process goes on (its other tick, its flag and
\* its timer are as before, and a new tick can start), and every job that was
\* queued is still queued; a queued job leaves that status only by a claiming
\* UPDATE that the store executes.
C25_StoreOutage ==
    [][/\ \A t \in Ticks :
            (SelectError(t) \/ FaultStoreError(t)) =>
                /\ tick'[t] = IdleTick
                /\ \A u \in Ticks \ {t} : tick'[u] = tick[u]
                /\ isConnected' = isConnected
                /\ \E u \in Ticks : tick'[u].pc = "idle"
                /\ Len(jobs') = Len(jobs)
                /\ \A j \in JobIds :
                      jobs[j].status = "queued" => jobs'[j].status = "queued"
       /\ \A j \in JobIds :
            (jobs[j].status = "queued" /\ jobs'[j].status # "queued") =>
                \E t \in Ticks : TickClaim(t) /\ CurJob(tick[t]) = j]_vars

\* A statement has found the store unreachable while a job was queued and
\* due, and the job is queued.
C25_Witness ==
    /\ faults > 0
    /\ \E j \in JobIds : jobs[j].status = "queued" /\ jobs[j].send_at <= now

\* C26: at most one tick of the process is in progress (past its SELECT and
\* not yet ended) at any time.
C26_OneTickInProgress ==
    Cardinality({t \in Ticks : tick[t].pc # "idle"}) <= 1

\* C27: in every state of the job table a sent job has sent_at set and no
\* error, a queued, processing or failed job has no sent_at, and a failed
\* job has an error.
C27_RowShape ==
    \A j \in JobIds :
        /\ jobs[j].status = "sent" =>
              jobs[j].sent_at # NoTime /\ jobs[j].error = Null
        /\ jobs[j].status \in {"queued", "processing", "failed"} =>
              jobs[j].sent_at = NoTime
        /\ jobs[j].status = "failed" => jobs[j].error # Null

\* The table holds a sent job and a failed job at once.
C27_Witness ==
    /\ \E j \in JobIds : jobs[j].status = "sent"
    /\ \E j \in JobIds : jobs[j].status = "failed"

\* C28: every creds.update of a connection writes the credentials to the auth
\* directory; a backup that the handler of a connection starts comes at least
\* 30 s after the one it started before, and it is started after the local
\* save, whose credentials it sends.
C28_Throttle ==
    [][/\ \A k \in SockIds, c \in Contents :
            MsCredsSaved(k, c) => auth'[socks[k].sid]["creds.json"] = c
       /\ \A k \in SockIds :
            MsCredsThrottle(k) =>
                \A p \in saves'[socks[k].sid] \ saves[socks[k].sid] :
                    /\ socks[k].backedAt # NoTime =>
                          clock - socks[k].backedAt[1] >= ThrottleMs
                    /\ p.blob["creds.json"] # Absent
                    /\ p.blob["creds.json"] = auth[socks[k].sid]["creds.json"]
                    /\ p.n = 1]_vars

\* A connection has backed up one update and, less than 30 s later, has saved
\* another to the auth directory without a backup: its handlers are done, and
\* the backup in flight holds the credentials of the first update.
C28_Witness ==
    \E k \in SockIds :
        /\ socks[k].saving = 0
        /\ socks[k].backedAt # NoTime
        /\ clock - socks[k].backedAt[1] < ThrottleMs
        /\ auth[socks[k].sid]["creds.json"] # Absent
        /\ \E p \in saves[socks[k].sid] :
              p.blob["creds.json"] # auth[socks[k].sid]["creds.json"]

\* C29: the close handler of the multi-session server sets a 30 s timer for
\* a close of the conflict class (bad session, restart required, or a message
\* with 'device_removed' or 'conflict'), a 10 s timer for any other close
\* that is not a logout, and never more than one timer for one close event.
C29_ConflictDelay ==
    [][\A k \in SockIds, code \in Codes, msg \in Messages :
          MsClose(k, code, msg) =>
              LET s == socks[k].sid
                  conflict == code \in {"badSession", "restartRequired"}
                                 \/ msg = "conflict"
                  set(d) == timers'[s][d] - timers[s][d]
              IN  /\ \A d \in Delays : set(d) \in {0, 1}
                  /\ Cardinality({d \in Delays : set(d) = 1}) <= 1
                  /\ \A r \in Sids \ {s} : timers'[r] = timers[r]
                  /\ conflict => set(30000) = 1
                  /\ (~conflict /\ code # "loggedOut") => set(10000) = 1]_vars

\* A close of the conflict class has left its 30 s timer pending.
C29_Witness ==
    \E s \in Sids : timers[s][30000] = 1 /\ sessions[s].status = "disconnected"

\* C30 as stated: the k-th entry of the list, counted from 1, gets a timer
\* of k times 2 s.
C30_Original ==
    [][\A l \in BootLists :
          MsAutoRestore(l) =>
              \A i \in DOMAIN l :
                  /\ 2000 * i \in Delays
                  /\ timers'[l[i]][2000 * i] = timers[l[i]][2000 * i] + 1]_vars

\* C30: autoRestoreSessions runs once; it sets one timer for each listed
\* session and no other, the k-th entry's (k = 1, 2, ...) with a delay of
\* (k - 1) times 2 s, so that no two have the same delay; such a timer starts
\* one connection when it fires; a failed list sets no timer, starts no
\* connection and leaves the server running.
C30_StaggeredStart ==
    [][/\ \A l \in BootLists :
            MsAutoRestore(l) =>
                /\ boot = "pending" /\ boot' = "done"
                /\ conns' = conns /\ socks' = socks
                /\ \A s \in Sids, d \in Delays :
                      timers'[s][d] - timers[s][d] =
                          IF \E i \in DOMAIN l : l[i] = s /\ d = 2000 * (i - 1)
                          THEN 1 ELSE 0
                /\ \A i, j \in DOMAIN l :
                      i # j => \A d \in Delays :
                                  ~(/\ timers'[l[i]][d] > timers[l[i]][d]
                                    /\ timers'[l[j]][d] > timers[l[j]][d])
       /\ \A s \in Sids, d \in StaggerDelays :
            MsTimer(s, d) =>
                /\ timers'[s][d] = timers[s][d] - 1
                /\ conns'[s][RestorePos(1)] = conns[s][RestorePos(1)] + 1
                /\ \A r \in Sids \ {s} : conns'[r] = conns[r] /\ timers'[r] = timers[r]
       /\ MsListFails =>
            /\ boot' = "done"
            /\ timers' = timers /\ conns' = conns /\ socks' = socks
            /\ sessions' = sessions /\ server' = server
       /\ boot = "done" => boot' = "done"]_vars

\* The store listed two sessions: the timer of the first has fired and its
\* connection is at the first attempt of the restore, the 2 s timer of the
\* second is pending.
C30_Witness ==
    \E s, r \in Sids :
        /\ s # r
        /\ boot = "done"
        /\ timers[s][2000] = 1
        /\ timers[r][0] = 0
        /\ conns[r][RestorePos(1)] = 1

(***************************************************************************)
(* Claims about the sessions side by side and about the handlers           *)
(***************************************************************************)
\* What the server holds for session s: its entry in the Map (status,
\* pairing payload, connected flag, backup interval), its sockets, the timers
\* and connection attempts pending for it, and its backup timer.
SocksOf(s) == SelectSeq(socks, LAMBDA q : q.sid = s)
View(s) == <<sessions[s], SocksOf(s), timers[s], conns[s], btimers[s], auth[s]>>
Others(s) == \A b \in Sids \ {s} : View(b)' = View(b)

\* C31: an event of the transport, a timer, an awaited call or a command
\* for one session leaves everything the server holds for every other
\* session as it was.
C31_Independent ==
    [][/\ \A k \in SockIds :
            (\/ \E c \in Codes, m \in Messages : MsClose(k, c, m)
             \/ MsQr(k) \/ MsOpen(k) \/ MsConnecting(k)) => Others(socks[k].sid)
       /\ \A s \in Sids :
            (\/ \E d \in Delays : MsTimer(s, d)
             \/ \E n \in 1..Retries, o \in Outcomes : MsRestore(s, n, o)
             \/ \E r \in Results, ok \in BOOLEAN : MsSetup(s, r, ok)
             \/ MsQrRequest(s) \/ MsReconnect(s) \/ MsClear(s)
             \/ \E h \in BOOLEAN, n \in Fields, m \in Fields, r \in BOOLEAN :
                   MsSend(h, s, n, m, r)) => Others(s)]_vars

\* A command has torn down the session of the callers while the other
\* session is connected.
C31_Witness ==
    \E a, b \in Sids :
        /\ a # b
        /\ ~Has(a) /\ timers[a][1000] = 1
        /\ sessions[b].isConnected
        /\ \E k \in Live : socks[k].sid = b /\ socks[k].phase = "open"

\* The timers pending for session s that will call connectToWhatsApp.
TimersOf(s) == Sum(timers[s], Delays)

\* C32: a session has at most one live transport connection and at most one
\* pending reconnect timer, in the multi-session and in the single-session
\* server.
C32_OneConnectionOneTimer ==
    /\ \A s \in Sids :
          /\ Cardinality({k \in Live : socks[k].sid = s}) <= 1
          /\ TimersOf(s) <= 1
    /\ Cardinality(WLive) <= 1
    /\ wtimers <= 1

\* C33: an event of a socket that is not the current one of its session (it
\* was torn down by a command, or a newer socket took its place) changes
\* nothing of what the queries and the dispatcher read: the session objects
\* of the Map in the multi-session server, the connected flag and the stored
\* pairing payload in the single-session server.
C33_SupersededSilent ==
    [][/\ \A k \in SockIds :
            (/\ ~(socks[k].att /\ socks[k].cur)
             /\ \/ \E c \in Codes, m \in Messages : MsClose(k, c, m)
                \/ MsQr(k) \/ MsOpen(k) \/ MsConnecting(k))
              => sessions' = sessions
       /\ \A k \in WSockIds :
            (/\ ~wsocks[k].cur
             /\ \/ \E c \in Codes, m \in Messages : WaClose(k, c, m)
                \/ WaOpen(k))
              => /\ isConnected' = isConnected
                 /\ lastQR' = lastQR
                 /\ lastQRpng' = lastQRpng]_vars

\* C34: in the single-session server, when the current socket is the only
\* one, its last event was 'open', no handler waits for a QR image and no
\* cleanup waits for a logout, the connected flag is true and no pairing
\* payload is stored.
C34_OpenWins ==
    (/\ server = "single"
     /\ \E k \in WSockIds : wsocks[k].cur /\ wsocks[k].phase = "open"
     /\ \A k \in WSockIds : wsocks[k].cur /\ wsocks[k].lo = 0
     /\ renders.url = 0 /\ renders.png = 0)
        => /\ isConnected
           /\ lastQR = Null
           /\ lastQRpng = Null

\* C35: in the single-session server the guard 'starting' is set exactly
\* while an invocation of startBaileys is past it; a call that finds it set
\* returns and makes no socket; a socket is made only by the invocation past
\* the guard; and the guard is reset when that invocation ends, by its last
\* statement or by its catch.
C35_SingleFlightStart ==
    [][/\ starting' = (run' # "none")
       /\ (WaTimer /\ starting) =>
             /\ wsocks' = wsocks /\ run' = run /\ starting'
       /\ Cardinality(WLive') > Cardinality(WLive) => run = "version"
       /\ (\E ok \in BOOLEAN : WaAuth(ok) \/ WaSocket(ok)) =>
             (run' = "none" => ~starting')]_vars

\* A timer set after the start began has fired and called startBaileys; one
\* invocation is past the guard and no socket has been made yet.
C35_Witness ==
    /\ server = "single"
    /\ starting /\ run # "none"
    /\ env > 0 /\ wtimers = 0
    /\ wsocks = <<>>

\* C36: in the multi-session server the connected flag of a session is true
\* exactly when its status is 'connected'.
C36_FlagMatchesStatus ==
    \A s \in Sids : sessions[s].isConnected <=> sessions[s].status = "connected"

(***************************************************************************)
(* Claims about the outcome write and the backup timer                     *)
(***************************************************************************)

\* The ticks that are past a successful claim of job j and have not yet
\* written its outcome.
PastClaim(j) == {t \in Ticks : tick[t].job = j /\ tick[t].pc \in {"send", "mark"}}

\* C37: the outcome UPDATE (sent or failed) is applied only to a job in
\* processing and only by the one tick that claimed it; a tick whose claim
\* matched no row leaves the row as it is and never comes to write it.
C37_OnlyClaimerMarks ==
    [][ /\ \A j \in JobIds :
             /\ Cardinality(PastClaim(j)) <= 1
             /\ PastClaim(j) # {} => jobs[j].status = "processing"
        /\ \A t \in Ticks :
             LET j == tick[t].job
             IN  /\ TickMark(t) =>
                      /\ jobs[j].status = "processing"
                      /\ PastClaim(j) = {t}
                      /\ hist[j].claims = 1 /\ hist[j].marks = 0
                      /\ \A i \in JobIds \ {j} : jobs'[i] = jobs[i]
                 /\ (TickClaim(t) /\ ~ClaimMatches(jobs[j])) =>
                      /\ jobs' = jobs
                      /\ t \notin PastClaim(j)'
             /\ \A i \in JobIds :
                  (jobs'[i].status \in Terminal /\ jobs[i].status \notin Terminal)
                      => \E u \in PastClaim(i) : TickMark(u) ]_vars

\* A tick is about to write the outcome of a job it claimed while the other
\* tick, which selected the same job, is still to run its claim on it.
C37_Witness ==
    \E j \in JobIds : \E t, u \in Ticks :
        /\ t # u
        /\ tick[t].pc = "mark" /\ tick[t].job = j
        /\ tick[u].pc = "claim" /\ tick[u].job = j
        /\ jobs[j].status = "processing"

\* C38: a session never has more than one periodic backup timer armed,
\* however many open events its connections report.
C38_OneBackupTimer == \A s \in Sids : Intervals(s) <= 1

=============================================================================
